---- MODULE Spec2Model ----
(***************************************************************************)
(* One-way synchronisation of the scenarios of a Jira ticket into the     *)
(* test cases of a TestRail section (jira-testrail-sync).                  *)
(*                                                                         *)
(* The model follows SyncService.syncTicketToTestRail and the `sync`       *)
(* command that calls it.  Every await of the code is one action: the      *)
(* action performs the remote call, whose failure is a nondeterministic    *)
(* choice, and the synchronous code that follows it up to the next await.  *)
(* Strings are sequences of one-character strings, so that toLowerCase,    *)
(* trim, includes and split are computed and not assumed.                  *)
(***************************************************************************)
EXTENDS Integers, Sequences, FiniteSets, TLC

(***************************************************************************)
(* Bounds of the exploration.                                              *)
(***************************************************************************)
MaxCases == 2

MaxScenarios == 2

MaxRuns == 2
\* lines of a description handed to the parser
MaxLines == 4

(***************************************************************************)
(* String primitives of the JavaScript runtime.                            *)
(***************************************************************************)
LowerOf ==
    LET upper == <<"A", "B", "C", "D", "E", "F", "G", "H", "I", "J", "K", "L", "M",
                   "N", "O", "P", "Q", "R", "S", "T", "U", "V", "W", "X", "Y", "Z">>
        lower == <<"a", "b", "c", "d", "e", "f", "g", "h", "i", "j", "k", "l", "m",
                   "n", "o", "p", "q", "r", "s", "t", "u", "v", "w", "x", "y", "z">>
    IN  [c \in {upper[k] : k \in 1..26} |-> lower[CHOOSE k \in 1..26 : upper[k] = c]]

LowerChar(c) == IF c \in DOMAIN LowerOf THEN LowerOf[c] ELSE c

ToLowerCase(s) == [k \in 1..Len(s) |-> LowerChar(s[k])]

\* the blanks of \s and of trim() that occur in the model's texts
IsSpace(c) == c \in {" ", "\n"}

RECURSIVE TrimStart(_)
TrimStart(s) == IF s # <<>> /\ IsSpace(Head(s)) THEN TrimStart(Tail(s)) ELSE s

RECURSIVE TrimEnd(_)
TrimEnd(s) == IF s # <<>> /\ IsSpace(s[Len(s)]) THEN TrimEnd(SubSeq(s, 1, Len(s) - 1)) ELSE s

Trim(s) == TrimEnd(TrimStart(s))

Includes(s, sub) == \E k \in 0..(Len(s) - Len(sub)) : SubSeq(s, k + 1, k + Len(sub)) = sub

\* s.split(sep) for a one-character separator: the pieces between separators
RECURSIVE SplitFrom(_, _, _)
SplitFrom(s, sep, cur) ==
    IF s = <<>> THEN <<cur>>
    ELSE IF Head(s) = sep THEN <<cur>> \o SplitFrom(Tail(s), sep, <<>>)
    ELSE SplitFrom(Tail(s), sep, Append(cur, Head(s)))

Split(s, sep) == SplitFrom(s, sep, <<>>)

\* s.replace(/\s+/g, ' ')
RECURSIVE CollapseSpaces(_)
CollapseSpaces(s) ==
    IF s = <<>> THEN <<>>
    ELSE IF IsSpace(Head(s))
         THEN <<" ">> \o CollapseSpaces(TrimStart(s))
         ELSE <<Head(s)>> \o CollapseSpaces(Tail(s))

\* array helpers: the first and the last of the indices that pass a test (0 when none)
FirstIndex(hits) ==
    IF hits = {} THEN 0 ELSE CHOOSE k \in hits : \A m \in hits : k <= m

LastIndex(hits) ==
    IF hits = {} THEN 0 ELSE CHOOSE k \in hits : \A m \in hits : k >= m

SeqRange(seq) == {seq[k] : k \in 1..Len(seq)}

\* s.toLowerCase().trim(), the key of every title and section-name comparison
NormalizeTitle(s) == Trim(ToLowerCase(s))

(***************************************************************************)
(* Input pools.  The store starts with one suite "M" holding one top-level *)
(* section "S", alone or with two subsections; the tracker holds one issue *)
(* whose canonical key is "P1".                                            *)
(***************************************************************************)
KeyArgs == {<<"P", "1">>, <<"p", "1">>}

IssueKey == <<"P", "1">>

SuiteNamePool == {<<>>, <<"m">>, <<"N">>}

SectionNamePool ==
    {<<>>, <<"s">>, <<"s", "/">>, <<"C">>, <<"S", "/", "C">>, <<"C", "/", "s">>}

ScenarioNames == {<<"L">>, <<"x">>}

CasePool ==
    { [title |-> <<" ", "l", " ">>, refs |-> <<"P", "1">>, section_id |-> 10],
      [title |-> <<"L", "o">>, refs |-> <<"P", "1">>, section_id |-> 10],
      [title |-> <<"x">>, refs |-> <<"Q", "1">>, section_id |-> 10],
      [title |-> <<"y">>, refs |-> <<"P", "1", "2">>, section_id |-> 10],
      [title |-> <<"L">>, refs |-> <<"p", "1">>, section_id |-> 10],
      [title |-> <<"L">>, refs |-> <<"P", "1">>, section_id |-> 11] }

\* the sections of suite "M" as getSections lists them: the single top-level
\* section "S", or "S" with two subsections, one of them named like its
\* parent and listed before it
BaseSections ==
    <<[id |-> 10, name |-> <<"S">>, suite_id |-> 1, parent_id |-> 0]>>

NestedSections ==
    <<[id |-> 12, name |-> <<"s", " ">>, suite_id |-> 1, parent_id |-> 10],
      [id |-> 10, name |-> <<"S">>, suite_id |-> 1, parent_id |-> 0],
      [id |-> 13, name |-> <<"c">>, suite_id |-> 1, parent_id |-> 10]>>

\* the id of the mock section that stands for a section a dry run would create
PlaceholderId == -1

OptionSpace ==
    [jiraKey : KeyArgs, suiteId : {0, 1}, suiteName : SuiteNamePool,
     sectionId : {0, 10}, sectionName : SectionNamePool,
     createSuite : BOOLEAN, createSection : BOOLEAN, dryRun : BOOLEAN]

\* sequences of distinct pool cases, in listing order, with store-assigned ids
StorePool(max) ==
    UNION { { [k \in 1..n |-> [id |-> 100 + k, title |-> f[k].title,
                               refs |-> f[k].refs, section_id |-> f[k].section_id]] :
              f \in {g \in [1..n -> CasePool] : \A a, b \in 1..n : a # b => g[a] # g[b]} } :
            n \in 0..max }

\* what parseScenarios returns for the description: records in source order
ScenarioLists(max) ==
    UNION { [1..n -> [name : ScenarioNames]] : n \in 0..max }

\* The product of all pools is too large to explore.  Command lines that name
\* no suite, no section path and no creation flag are explored with stores
\* and tickets up to the bounds, the others with at most one case and one
\* scenario.
PlainAddressing(o) ==
    o.suiteName = <<>> /\ o.sectionName = <<>> /\ ~o.createSuite /\ ~o.createSection

VARIABLES
    suites,              \* TestRail: suites of the project, in listing order
    sections,            \* TestRail: sections, in listing order
    cases,               \* TestRail: test cases, in listing order
    nextId,              \* TestRail: next identifier the store assigns
    issue,               \* Jira: the issue, [key, scenarios of its description]
    options,             \* command line of the sync command
    pc,                  \* position of the command
    run,                 \* number of the invocation
    resolvedSuiteId,
    testrailSuiteId,
    sectionId,
    memSections,         \* the `sections` array of the run
    partIdx,             \* loop index over the path segments (1-based)
    currentParentId,
    selectedSection,     \* id of the selected section, 0 when undefined
    result,              \* SyncResult
    scenarios,
    jiraTicketTestCases,
    scenarioIdx,         \* loop index over scenarios (1-based)
    testCasesToDelete,
    deleteIdx,           \* loop index over testCasesToDelete (1-based)
    calls,               \* remote calls issued by the run, in order
    raised,              \* syncTicketToTestRail threw to its caller
    exitCode,            \* process exit status, -1 while running
    casesAtStart,        \* the store's cases when the run started
    description,         \* parser: the text handed to parseScenarios
    parserPc,            \* parser: position ("idle" while the sync command runs)
    parsed,              \* parser: what parseScenarios returned
    testCases,           \* the testCase objects built from the parsed scenarios
    preview              \* the SyncResult of the dry run that preceded this run

storeVars == <<suites, sections, cases, nextId>>

resolveVars == <<resolvedSuiteId, testrailSuiteId, sectionId, memSections, partIdx,
                 currentParentId, selectedSection>>

reconcileVars == <<scenarios, jiraTicketTestCases, scenarioIdx, testCasesToDelete, deleteIdx>>

syncVars == <<suites, sections, cases, nextId, issue, options, pc, run, resolvedSuiteId,
          testrailSuiteId, sectionId, memSections, partIdx, currentParentId,
          selectedSection, result, scenarios, jiraTicketTestCases, scenarioIdx,
          testCasesToDelete, deleteIdx, calls, raised, exitCode, casesAtStart>>

parserVars == <<description, parserPc, parsed, testCases>>

vars == <<syncVars, parserVars, preview>>

NewResult ==
    [jiraTicketKey |-> <<>>, scenariosFound |-> 0, scenariosCreated |-> 0,
     scenariosUpdated |-> 0, scenariosDeleted |-> 0, scenariosSkipped |-> 0,
     testCaseIds |-> <<>>, errors |-> <<>>]

Call(op, id, title, ok) == [op |-> op, id |-> id, title |-> title, ok |-> ok]

CliAccepts_AnyAddressing(o) ==
    /\ ~(o.suiteId = 0 /\ o.suiteName = <<>> /\ o.sectionId = 0)
    /\ ~(o.createSuite /\ o.suiteName = <<>>)
    /\ ~(o.sectionName # <<>> /\ o.suiteId = 0 /\ o.suiteName = <<>>)

\* the flag validation of the sync command: TRUE when the command goes on
CliAccepts(o) ==
    /\ ~(o.suiteId = 0 /\ o.suiteName = <<>> /\ o.sectionId = 0)
    /\ ~(o.suiteId # 0 /\ o.suiteName # <<>>)
    /\ ~(o.suiteId # 0 /\ o.sectionId # 0)
    /\ ~(o.suiteName # <<>> /\ o.sectionId # 0)
    /\ ~(o.createSuite /\ o.suiteName = <<>>)
    /\ ~(o.sectionName # <<>> /\ o.suiteId = 0 /\ o.suiteName = <<>>)

RunLocalInit ==
    /\ pc = "start"
    /\ resolvedSuiteId = options.suiteId
    /\ testrailSuiteId = options.suiteId
    /\ sectionId = 0
    /\ memSections = <<>>
    /\ partIdx = 0
    /\ currentParentId = 0
    /\ selectedSection = 0
    /\ result = NewResult
    /\ scenarios = <<>>
    /\ jiraTicketTestCases = <<>>
    /\ scenarioIdx = 0
    /\ testCasesToDelete = <<>>
    /\ deleteIdx = 0
    /\ calls = <<>>
    /\ raised = FALSE
    /\ exitCode = 0 - 1

Init ==
    /\ suites = <<[id |-> 1, name |-> <<"M">>]>>
    /\ nextId = 200
    /\ options \in OptionSpace
    /\ sections \in (IF CliAccepts(options) /\ options.sectionName # <<>>
                     THEN {BaseSections, NestedSections} ELSE {BaseSections})
    /\ IF ~CliAccepts(options)
       THEN /\ cases = <<>>
            /\ issue = [key |-> IssueKey, scenarios |-> <<>>]
       ELSE IF PlainAddressing(options)
       THEN /\ cases \in StorePool(MaxCases)
            /\ issue \in [key : {IssueKey}, scenarios : ScenarioLists(MaxScenarios)]
       ELSE /\ cases \in StorePool(1)
            /\ issue \in [key : {IssueKey}, scenarios : ScenarioLists(1)]
    /\ run = 1
    /\ casesAtStart = cases
    /\ RunLocalInit
    /\ description = <<>>
    /\ parserPc = "idle"
    /\ parsed = <<>>
    /\ testCases = <<>>
    /\ preview = NewResult

(***************************************************************************)
(* Outcomes shared by the steps of the hierarchy resolution.  Each fixes   *)
(* pc, raised, result, sectionId, testrailSuiteId, selectedSection,        *)
(* partIdx and currentParentId.                                            *)
(***************************************************************************)
Rethrow_Swallowed(msg) ==
    /\ pc' = "returned"
    /\ raised' = FALSE
    /\ result' = [result EXCEPT !.errors = Append(@, msg)]

\* an exception reaching the outer catch of syncTicketToTestRail: the message
\* is recorded and the exception rethrown to the command
Rethrow(msg) ==
    /\ pc' = "thrown"
    /\ raised' = TRUE
    /\ result' = [result EXCEPT !.errors = Append(@, msg)]

\* the same, thrown from a step of the hierarchy resolution
Throw(msg) ==
    /\ Rethrow(msg)
    /\ UNCHANGED <<sectionId, testrailSuiteId, selectedSection, partIdx, currentParentId>>

\* sectionId is set, testrailSuiteId = resolvedSuiteId, on to Step 1
Resolved(id) ==
    IF id = 0
    THEN Throw("Failed to resolve section ID")
    ELSE /\ pc' = "fetch"
         /\ sectionId' = id
         /\ selectedSection' = id
         /\ testrailSuiteId' = resolvedSuiteId
         /\ UNCHANGED <<raised, result, partIdx, currentParentId>>

EnterHierarchy ==
    /\ pc' = "hier"
    /\ partIdx' = 1
    /\ currentParentId' = 0
    /\ UNCHANGED <<raised, result, sectionId, testrailSuiteId, selectedSection>>

\* the code after the section lookup: create the section when none was selected
Selected(sel) ==
    IF sel # 0 THEN Resolved(sel)
    ELSE IF options.createSection
         THEN IF options.dryRun THEN Resolved(PlaceholderId) ELSE EnterHierarchy
         ELSE Throw("Section not found")

\* the code after Step 0, with the suite id it resolved (0 when undefined)
AfterSuite(rs) ==
    /\ resolvedSuiteId' = rs
    /\ IF rs # 0
       THEN /\ pc' = "getSections"
            /\ UNCHANGED <<raised, result, sectionId, testrailSuiteId, selectedSection,
                           partIdx, currentParentId>>
       ELSE IF options.sectionId # 0
       THEN /\ pc' = "getSection"
            /\ sectionId' = options.sectionId
            /\ UNCHANGED <<raised, result, testrailSuiteId, selectedSection, partIdx,
                           currentParentId>>
       ELSE Throw("Either suite ID, suite name, or section ID must be provided")

\* split on "/", trim each part, drop the empty ones
PathParts(name) ==
    SelectSeq([k \in 1..Len(Split(name, "/")) |-> Trim(Split(name, "/")[k])],
              LAMBDA part : Len(part) > 0)

\* suite names are compared lowercased, trimmed, with runs of blanks collapsed
NormalizeSuiteName(name) == CollapseSpaces(Trim(ToLowerCase(name)))

findSuiteByName_AnySuite(suiteList, suiteName) ==
    IF suiteList = <<>> THEN 0 ELSE suiteList[1].id

findSuiteByName(suiteList, suiteName) ==
    LET k == FirstIndex({i \in 1..Len(suiteList) :
                            NormalizeSuiteName(suiteList[i].name) = NormalizeSuiteName(suiteName)})
    IN  IF k = 0 THEN 0 ELSE suiteList[k].id

ChildIndex_AnyParent(secs, name, parent) ==
    FirstIndex({i \in 1..Len(secs) : NormalizeTitle(secs[i].name) = name})

\* a section named `name` (already normalised) directly under `parent`
ChildIndex(secs, name, parent) ==
    FirstIndex({i \in 1..Len(secs) :
                   /\ NormalizeTitle(secs[i].name) = name
                   /\ IF parent = 0 THEN secs[i].parent_id = 0
                                    ELSE secs[i].parent_id = parent})

(***************************************************************************)
(* The sync command: flag validation, then syncTicketToTestRail up to its  *)
(* first await.                                                            *)
(***************************************************************************)
CliSync ==
    /\ pc = "start"
    /\ IF ~CliAccepts(options)
       THEN /\ pc' = "exited"
            /\ exitCode' = 1
            /\ UNCHANGED <<resolveVars, raised, result>>
       ELSE /\ exitCode' = exitCode
            /\ memSections' = memSections
            /\ IF options.suiteName # <<>> /\ options.suiteId = 0
               THEN /\ pc' = "findSuite"
                    /\ UNCHANGED <<raised, result, resolvedSuiteId, sectionId,
                                   testrailSuiteId, selectedSection, partIdx,
                                   currentParentId>>
               ELSE AfterSuite(options.suiteId)
    /\ UNCHANGED <<storeVars, issue, options, run, reconcileVars, calls, casesAtStart>>
    /\ UNCHANGED <<parserVars, preview>>

\* Step 0: look the suite up by name
FindSuite ==
    /\ pc = "findSuite"
    /\ \E ok \in BOOLEAN :
         /\ calls' = Append(calls, Call("getSuites", 0, options.suiteName, ok))
         /\ IF ~ok THEN Throw("getSuites failed") /\ UNCHANGED resolvedSuiteId
            ELSE LET existingSuite == findSuiteByName(suites, options.suiteName)
                 IN  IF existingSuite # 0 THEN AfterSuite(existingSuite)
                     ELSE IF options.createSuite
                          THEN IF options.dryRun
                               THEN AfterSuite(resolvedSuiteId)
                               ELSE /\ pc' = "createSuite"
                                    /\ UNCHANGED <<raised, result, resolvedSuiteId, sectionId,
                                                   testrailSuiteId, selectedSection, partIdx,
                                                   currentParentId>>
                          ELSE /\ pc' = "getSuites"
                               /\ UNCHANGED <<raised, result, resolvedSuiteId, sectionId,
                                              testrailSuiteId, selectedSection, partIdx,
                                              currentParentId>>
    /\ UNCHANGED <<storeVars, issue, options, run, memSections, reconcileVars, exitCode,
                   casesAtStart>>
    /\ UNCHANGED <<parserVars, preview>>

\* Step 0: create the missing suite
CreateSuite ==
    /\ pc = "createSuite"
    /\ \E ok \in BOOLEAN :
         /\ calls' = Append(calls, Call("createSuite", 0, options.suiteName, ok))
         /\ IF ok
            THEN /\ suites' = Append(suites, [id |-> nextId, name |-> options.suiteName])
                 /\ nextId' = nextId + 1
                 /\ AfterSuite(nextId)
            ELSE /\ Throw("createSuite failed")
                 /\ UNCHANGED <<suites, nextId, resolvedSuiteId>>
    /\ UNCHANGED <<sections, cases, issue, options, run, memSections, reconcileVars,
                   exitCode, casesAtStart>>
    /\ UNCHANGED <<parserVars, preview>>

\* Step 0: the suite is missing and may not be created; list the suites for the message
GetSuites ==
    /\ pc = "getSuites"
    /\ \E ok \in BOOLEAN :
         calls' = Append(calls, Call("getSuites", 0, <<>>, ok))
    /\ Throw("Suite not found")
    /\ UNCHANGED <<storeVars, issue, options, run, resolvedSuiteId, memSections,
                   reconcileVars, exitCode, casesAtStart>>
    /\ UNCHANGED <<parserVars, preview>>

(***************************************************************************)
(* Section resolution inside the resolved suite.                           *)
(***************************************************************************)
GetSections ==
    /\ pc = "getSections"
    /\ \E ok \in BOOLEAN :
         /\ calls' = Append(calls, Call("getSections", resolvedSuiteId, <<>>, ok))
         /\ IF ~ok THEN Throw("getSections failed") /\ UNCHANGED memSections
            ELSE LET secs == SelectSeq(sections, LAMBDA se : se.suite_id = resolvedSuiteId)
                     normalizedName == NormalizeTitle(options.sectionName)
                     nameParts == PathParts(normalizedName)
                     topLevel == FirstIndex({i \in 1..Len(secs) :
                                                /\ NormalizeTitle(secs[i].name) = normalizedName
                                                /\ secs[i].parent_id = 0})
                     anyLevel == FirstIndex({i \in 1..Len(secs) :
                                                NormalizeTitle(secs[i].name) = normalizedName})
                     firstTop == FirstIndex({i \in 1..Len(secs) : secs[i].parent_id = 0})
                 IN  /\ memSections' = secs
                     /\ IF Len(secs) = 0
                        THEN IF options.createSection /\ options.sectionName # <<>>
                             THEN IF options.dryRun THEN Resolved(PlaceholderId)
                                                    ELSE EnterHierarchy
                             ELSE Throw("No sections found in suite")
                        ELSE IF options.sectionName # <<>>
                        THEN IF Len(nameParts) = 1
                             THEN Selected(IF topLevel # 0 THEN secs[topLevel].id
                                           ELSE IF anyLevel # 0 THEN secs[anyLevel].id ELSE 0)
                             ELSE IF Len(nameParts) = 0
                             THEN Selected(0)
                             ELSE /\ pc' = "walk"
                                  /\ partIdx' = 1
                                  /\ currentParentId' = 0
                                  /\ UNCHANGED <<raised, result, sectionId, testrailSuiteId,
                                                 selectedSection>>
                        ELSE Resolved(IF firstTop # 0 THEN secs[firstTop].id ELSE secs[1].id)
    /\ UNCHANGED <<storeVars, issue, options, run, resolvedSuiteId, reconcileVars, exitCode,
                   casesAtStart>>
    /\ UNCHANGED <<parserVars, preview>>

\* the characters of a section name as the text they stand for
RECURSIVE Text(_)
Text(chars) == IF chars = <<>> THEN "" ELSE Head(chars) \o Text(Tail(chars))

\* the error of the traversal for a segment that has no match
SectionNotFound(part) == "Section not found on path: " \o Text(part)

\* one iteration of the hierarchical path traversal
WalkStep ==
    /\ pc = "walk"
    /\ LET nameParts == PathParts(NormalizeTitle(options.sectionName))
           originalNameParts == PathParts(options.sectionName)
           found == ChildIndex(memSections, nameParts[partIdx], currentParentId)
           last == partIdx = Len(nameParts)
           \* the rest of the loop body once this segment resolved to section id
           Continue(id) ==
               IF last THEN Selected(id)
               ELSE /\ partIdx' = partIdx + 1
                    /\ currentParentId' = id
                    /\ UNCHANGED <<pc, raised, result, sectionId, testrailSuiteId,
                                   selectedSection>>
       IN  IF found # 0
           THEN /\ Continue(memSections[found].id)
                /\ UNCHANGED <<memSections, calls, sections, nextId>>
           ELSE IF ~options.createSection
           THEN /\ Throw(SectionNotFound(originalNameParts[partIdx]))
                /\ UNCHANGED <<memSections, calls, sections, nextId>>
           ELSE IF options.dryRun
           THEN /\ memSections' = Append(memSections,
                        [id |-> PlaceholderId, name |-> originalNameParts[partIdx],
                         suite_id |-> resolvedSuiteId, parent_id |-> currentParentId])
                /\ Continue(PlaceholderId)
                /\ UNCHANGED <<calls, sections, nextId>>
           ELSE \E ok \in BOOLEAN :
                  /\ calls' = Append(calls, Call("createSection", currentParentId,
                                                 originalNameParts[partIdx], ok))
                  /\ IF ok
                     THEN LET newSection == [id |-> nextId, name |-> originalNameParts[partIdx],
                                             suite_id |-> resolvedSuiteId,
                                             parent_id |-> currentParentId]
                          IN  /\ sections' = Append(sections, newSection)
                              /\ nextId' = nextId + 1
                              /\ memSections' = Append(memSections, newSection)
                              /\ Continue(nextId)
                     ELSE /\ Throw("createSection failed")
                          /\ UNCHANGED <<memSections, sections, nextId>>
    /\ UNCHANGED <<suites, cases, issue, options, run, resolvedSuiteId, reconcileVars,
                   exitCode, casesAtStart>>
    /\ UNCHANGED <<parserVars, preview>>

\* createSectionHierarchy: the single call of a one-segment path, or one
\* iteration of its loop over the segments
createSectionHierarchy ==
    /\ pc = "hier"
    /\ LET nameParts == PathParts(options.sectionName)
           existing == ChildIndex(memSections, NormalizeTitle(nameParts[partIdx]),
                                  currentParentId)
           last == partIdx = Len(nameParts)
           Continue(id) ==
               IF last THEN Resolved(id)
               ELSE /\ partIdx' = partIdx + 1
                    /\ currentParentId' = id
                    /\ UNCHANGED <<pc, raised, result, sectionId, testrailSuiteId,
                                   selectedSection>>
       IN  IF Len(nameParts) = 0
           THEN /\ Throw("Failed to create section hierarchy")
                /\ UNCHANGED <<memSections, calls, sections, nextId>>
           ELSE IF Len(nameParts) > 1 /\ existing # 0
           THEN /\ Continue(memSections[existing].id)
                /\ UNCHANGED <<memSections, calls, sections, nextId>>
           ELSE IF options.dryRun
           THEN /\ Throw("[DRY RUN] Section would be created")
                /\ UNCHANGED <<memSections, calls, sections, nextId>>
           ELSE \E ok \in BOOLEAN :
                  LET parent == IF Len(nameParts) = 1 THEN 0 ELSE currentParentId
                      newSection == [id |-> nextId, name |-> nameParts[partIdx],
                                     suite_id |-> resolvedSuiteId, parent_id |-> parent]
                  IN  /\ calls' = Append(calls, Call("createSection", parent,
                                                     nameParts[partIdx], ok))
                      /\ IF ok
                         THEN /\ sections' = Append(sections, newSection)
                              /\ nextId' = nextId + 1
                              /\ memSections' = IF Len(nameParts) = 1 THEN memSections
                                                ELSE Append(memSections, newSection)
                              /\ Continue(nextId)
                         ELSE /\ Throw("createSection failed")
                              /\ UNCHANGED <<memSections, sections, nextId>>
    /\ UNCHANGED <<suites, cases, issue, options, run, resolvedSuiteId, reconcileVars,
                   exitCode, casesAtStart>>
    /\ UNCHANGED <<parserVars, preview>>

\* a section id was given: best-effort lookup of its suite
GetSection ==
    /\ pc = "getSection"
    /\ LET k == FirstIndex({i \in 1..Len(sections) : sections[i].id = sectionId})
       IN  \E ok \in (IF k = 0 THEN {FALSE} ELSE BOOLEAN) :
             /\ calls' = Append(calls, Call("getSection", sectionId, <<>>, ok))
             /\ testrailSuiteId' = IF ok /\ sections[k].suite_id # 0
                                   THEN sections[k].suite_id ELSE testrailSuiteId
    /\ pc' = "fetch"
    /\ UNCHANGED <<storeVars, issue, options, run, resolvedSuiteId, sectionId, memSections,
                   partIdx, currentParentId, selectedSection, result, reconcileVars,
                   raised, exitCode, casesAtStart>>
    /\ UNCHANGED <<parserVars, preview>>

(***************************************************************************)
(* Steps 1 to 3: the ticket, its scenarios, the existing cases.            *)
(***************************************************************************)
\* JiraClient.fetchTicket: the tracker resolves the key without regard to
\* case and answers with the issue's own key
fetchTicket(issueKey) ==
    IF ToLowerCase(issueKey) = ToLowerCase(issue.key) THEN [key |-> issue.key] ELSE [key |-> <<>>]

\* Steps 1 and 2
FetchTicket ==
    /\ pc = "fetch"
    /\ \E ok \in (IF fetchTicket(options.jiraKey).key = <<>> THEN {FALSE} ELSE BOOLEAN) :
         /\ calls' = Append(calls, Call("fetchTicket", 0, options.jiraKey, ok))
         /\ IF ~ok
            THEN /\ Rethrow("fetchTicket failed")
                 /\ UNCHANGED scenarios
            ELSE /\ scenarios' = issue.scenarios
                 /\ result' = [result EXCEPT !.jiraTicketKey = fetchTicket(options.jiraKey).key,
                                             !.scenariosFound = Len(issue.scenarios)]
                 /\ raised' = raised
                 /\ pc' = IF Len(issue.scenarios) = 0 THEN "returned" ELSE "list"
    /\ UNCHANGED <<storeVars, issue, options, run, resolveVars, jiraTicketTestCases,
                   scenarioIdx, testCasesToDelete, deleteIdx, exitCode, casesAtStart>>
    /\ UNCHANGED <<parserVars, preview>>

ManagedBy_Unfiltered(listing, jiraKey) == listing

\* the cases of a listing that belong to the ticket: refs contains the key argument
ManagedBy(listing, jiraKey) == SelectSeq(listing, LAMBDA tc : Includes(tc.refs, jiraKey))

\* Step 3 and the filter on the back-reference
GetTestCases ==
    /\ pc = "list"
    /\ IF options.dryRun /\ sectionId = PlaceholderId
       THEN /\ jiraTicketTestCases' = ManagedBy(<<>>, options.jiraKey)
            /\ scenarioIdx' = 1
            /\ pc' = "scenario"
            /\ UNCHANGED <<calls, raised, result>>
       ELSE \E ok \in BOOLEAN :
              /\ calls' = Append(calls, Call("getTestCases", sectionId, <<>>, ok))
              /\ IF ok
                 THEN /\ jiraTicketTestCases' =
                           ManagedBy(SelectSeq(cases, LAMBDA tc : tc.section_id = sectionId),
                                     options.jiraKey)
                      /\ scenarioIdx' = 1
                      /\ pc' = "scenario"
                      /\ UNCHANGED <<raised, result>>
                 ELSE /\ Rethrow("getTestCases failed")
                      /\ UNCHANGED <<jiraTicketTestCases, scenarioIdx>>
    /\ UNCHANGED <<storeVars, issue, options, run, resolveVars, scenarios, testCasesToDelete,
                   deleteIdx, exitCode, casesAtStart>>
    /\ UNCHANGED <<parserVars, preview>>

(***************************************************************************)
(* Steps 4 and 5: reconciliation.                                          *)
(***************************************************************************)
existingCasesMap_Partial(managed, key) ==
    LET k == LastIndex({i \in 1..Len(managed) : Includes(Trim(ToLowerCase(managed[i].title)), key)})
    IN  IF k = 0 THEN 0 ELSE managed[k].id

\* existingCasesMap.get(key): the map is filled in listing order, so the last
\* managed case with that normalised title is the one kept; 0 when absent
existingCasesMap(managed, key) ==
    LET k == LastIndex({i \in 1..Len(managed) : NormalizeTitle(managed[i].title) = key})
    IN  IF k = 0 THEN 0 ELSE managed[k].id

jiraScenarioTitles_AsWritten(scs) == {scs[k].name : k \in 1..Len(scs)}

\* the set of scenario titles the delete step compares with
jiraScenarioTitles(scs) == {NormalizeTitle(scs[k].name) : k \in 1..Len(scs)}

DeleteList_Reversed(managed, scs) ==
    LET kept == SelectSeq(managed, LAMBDA tc : \A k \in 1..Len(scs) :
                              Trim(ToLowerCase(scs[k].name)) # Trim(ToLowerCase(tc.title)))
    IN  [k \in 1..Len(kept) |-> kept[Len(kept) + 1 - k]]

\* the managed cases whose normalised title is no scenario's, in listing order
DeleteList(managed, scs) ==
    SelectSeq(managed, LAMBDA tc : NormalizeTitle(tc.title) \notin jiraScenarioTitles(scs))

RecordFailure_NotCounted(res, msg) == [res EXCEPT !.errors = Append(@, msg)]

\* the per-action catch: one message, one skipped
RecordFailure(res, msg) ==
    [res EXCEPT !.errors = Append(@, msg), !.scenariosSkipped = @ + 1]

ScenarioAction_IgnoresDryRun(dryRun, existingCase) ==
    IF existingCase # 0 THEN "update" ELSE "create"

\* what the loop body does for a scenario, given the case the map holds for it
ScenarioAction(dryRun, existingCase) ==
    IF dryRun
    THEN IF existingCase # 0 THEN "wouldUpdate" ELSE "wouldCreate"
    ELSE IF existingCase # 0 THEN "update" ELSE "create"

\* one iteration of the scenario loop; after the last one the delete list is built
SyncScenario ==
    /\ pc = "scenario"
    /\ LET scenario == scenarios[scenarioIdx]
           existingCase == existingCasesMap(jiraTicketTestCases, NormalizeTitle(scenario.name))
           stored == FirstIndex({i \in 1..Len(cases) : cases[i].id = existingCase})
           last == scenarioIdx = Len(scenarios)
           toDelete == DeleteList(jiraTicketTestCases, scenarios)
           action == ScenarioAction(options.dryRun, existingCase)
       IN  /\ IF action = "wouldUpdate"
              THEN /\ result' = [result EXCEPT !.scenariosUpdated = @ + 1]
                   /\ UNCHANGED <<cases, nextId, calls>>
              ELSE IF action = "wouldCreate"
              THEN /\ result' = [result EXCEPT !.scenariosCreated = @ + 1]
                   /\ UNCHANGED <<cases, nextId, calls>>
              ELSE IF action = "update"
              THEN \E ok \in (IF stored = 0 THEN {FALSE} ELSE BOOLEAN) :
                     /\ calls' = Append(calls, Call("updateCase", existingCase, scenario.name, ok))
                     /\ IF ok
                        THEN /\ cases' = [cases EXCEPT ![stored] =
                                             [@ EXCEPT !.title = scenario.name,
                                                       !.refs = result.jiraTicketKey]]
                             /\ result' = [result EXCEPT !.testCaseIds = Append(@, existingCase),
                                                         !.scenariosUpdated = @ + 1]
                        ELSE /\ result' = RecordFailure(result, "Failed to sync scenario")
                             /\ cases' = cases
                     /\ nextId' = nextId
              ELSE \E ok \in BOOLEAN :
                     /\ calls' = Append(calls, Call("createCase", sectionId, scenario.name, ok))
                     /\ IF ok
                        THEN /\ cases' = Append(cases, [id |-> nextId, title |-> scenario.name,
                                                        refs |-> result.jiraTicketKey,
                                                        section_id |-> sectionId])
                             /\ nextId' = nextId + 1
                             /\ result' = [result EXCEPT !.testCaseIds = Append(@, nextId),
                                                         !.scenariosCreated = @ + 1]
                        ELSE /\ result' = RecordFailure(result, "Failed to sync scenario")
                             /\ UNCHANGED <<cases, nextId>>
           /\ IF last
              THEN /\ testCasesToDelete' = toDelete
                   /\ deleteIdx' = 1
                   /\ scenarioIdx' = scenarioIdx
                   /\ pc' = IF Len(toDelete) > 0 THEN "delete" ELSE "returned"
              ELSE /\ scenarioIdx' = scenarioIdx + 1
                   /\ UNCHANGED <<testCasesToDelete, deleteIdx, pc>>
    /\ UNCHANGED <<suites, sections, issue, options, run, resolveVars, scenarios,
                   jiraTicketTestCases, raised, exitCode, casesAtStart>>
    /\ UNCHANGED <<parserVars, preview>>

\* one iteration of the delete loop
DeleteTestCase ==
    /\ pc = "delete"
    /\ LET testCase == testCasesToDelete[deleteIdx]
           stored == FirstIndex({i \in 1..Len(cases) : cases[i].id = testCase.id})
       IN  IF options.dryRun
           THEN /\ result' = [result EXCEPT !.scenariosDeleted = @ + 1]
                /\ UNCHANGED <<cases, calls>>
           ELSE \E ok \in (IF stored = 0 THEN {FALSE} ELSE BOOLEAN) :
                  /\ calls' = Append(calls, Call("deleteCase", testCase.id, testCase.title, ok))
                  /\ IF ok
                     THEN /\ cases' = SelectSeq(cases, LAMBDA tc : tc.id # testCase.id)
                          /\ result' = [result EXCEPT !.scenariosDeleted = @ + 1]
                     ELSE /\ result' = RecordFailure(result, "Failed to delete test case")
                          /\ cases' = cases
    /\ IF deleteIdx = Len(testCasesToDelete)
       THEN pc' = "returned" /\ deleteIdx' = deleteIdx
       ELSE pc' = pc /\ deleteIdx' = deleteIdx + 1
    /\ UNCHANGED <<suites, sections, nextId, issue, options, run, resolveVars, scenarios,
                   jiraTicketTestCases, scenarioIdx, testCasesToDelete, raised, exitCode,
                   casesAtStart>>
    /\ UNCHANGED <<parserVars, preview>>

ExitStatus_IgnoresErrors(thrown, res) == IF thrown THEN 1 ELSE 0

(***************************************************************************)
(* The sync command after syncTicketToTestRail returned or threw.          *)
(***************************************************************************)
ExitStatus(thrown, res) ==
    IF thrown THEN 1
    ELSE IF res.scenariosFound = 0 THEN 0
    ELSE IF Len(res.errors) > 0 THEN 1
    ELSE 0

CliResult ==
    /\ pc \in {"returned", "thrown"}
    /\ exitCode' = ExitStatus(pc = "thrown", result)
    /\ pc' = "exited"
    /\ UNCHANGED <<storeVars, issue, options, run, resolveVars, result, reconcileVars,
                   calls, raised, casesAtStart>>
    /\ UNCHANGED <<parserVars, preview>>

\* the same command line is run again after a run that exited 0
Rerun ==
    /\ pc = "exited"
    /\ exitCode = 0
    /\ run < MaxRuns
    /\ run' = run + 1
    /\ casesAtStart' = cases
    /\ pc' = "start"
    /\ resolvedSuiteId' = options.suiteId
    /\ testrailSuiteId' = options.suiteId
    /\ sectionId' = 0
    /\ memSections' = <<>>
    /\ partIdx' = 0
    /\ currentParentId' = 0
    /\ selectedSection' = 0
    /\ result' = NewResult
    /\ scenarios' = <<>>
    /\ jiraTicketTestCases' = <<>>
    /\ scenarioIdx' = 0
    /\ testCasesToDelete' = <<>>
    /\ deleteIdx' = 0
    /\ calls' = <<>>
    /\ raised' = FALSE
    /\ exitCode' = 0 - 1
    /\ UNCHANGED <<storeVars, issue, options>>
    /\ UNCHANGED <<parserVars, preview>>

Next ==
    \/ CliSync
    \/ FindSuite
    \/ CreateSuite
    \/ GetSuites
    \/ GetSections
    \/ WalkStep
    \/ createSectionHierarchy
    \/ GetSection
    \/ FetchTicket
    \/ GetTestCases
    \/ SyncScenario
    \/ DeleteTestCase
    \/ CliResult
    \/ Rerun

Spec == Init /\ [][Next]_vars

(***************************************************************************)
(* A preview followed by the real thing: the command is first run with     *)
(* --dry-run and, once the preview has exited with every remote read       *)
(* answered, run again with the same arguments without the flag.  A dry    *)
(* run writes nothing, so the second run meets the store the preview saw.  *)
(***************************************************************************)
RunForReal ==
    /\ pc = "exited"
    /\ options.dryRun
    /\ CliAccepts(options)
    /\ \A k \in 1..Len(calls) : calls[k].ok
    /\ run < MaxRuns
    /\ run' = run + 1
    /\ options' = [options EXCEPT !.dryRun = FALSE]
    /\ preview' = result
    /\ casesAtStart' = cases
    /\ pc' = "start"
    /\ resolvedSuiteId' = options.suiteId
    /\ testrailSuiteId' = options.suiteId
    /\ sectionId' = 0
    /\ memSections' = <<>>
    /\ partIdx' = 0
    /\ currentParentId' = 0
    /\ selectedSection' = 0
    /\ result' = NewResult
    /\ scenarios' = <<>>
    /\ jiraTicketTestCases' = <<>>
    /\ scenarioIdx' = 0
    /\ testCasesToDelete' = <<>>
    /\ deleteIdx' = 0
    /\ calls' = <<>>
    /\ raised' = FALSE
    /\ exitCode' = 0 - 1
    /\ UNCHANGED <<storeVars, issue, parserVars>>

PreviewInit == Init /\ options.dryRun

PreviewNext ==
    \/ CliSync
    \/ FindSuite
    \/ CreateSuite
    \/ GetSuites
    \/ GetSections
    \/ WalkStep
    \/ createSectionHierarchy
    \/ GetSection
    \/ FetchTicket
    \/ GetTestCases
    \/ SyncScenario
    \/ DeleteTestCase
    \/ CliResult
    \/ RunForReal

PreviewSpec == PreviewInit /\ [][PreviewNext]_vars

TypeOK ==
    /\ pc \in {"start", "findSuite", "createSuite", "getSuites", "getSections", "walk",
                "hier", "getSection", "fetch", "list", "scenario", "delete", "returned",
                "thrown", "exited"}
    /\ exitCode \in {0 - 1, 0, 1}
    /\ run \in 1..MaxRuns

(***************************************************************************)
(* GherkinParser: the primary pass.  Positions are 1-based indices into    *)
(* the text; Len(text) + 1 is the end of input; 0 stands for "no match".   *)
(***************************************************************************)
IsDigit(c) == c \in {"0", "1", "2", "3", "4", "5", "6", "7", "8", "9"}

\* `word` (lowercase) occurs at p, compared without regard to case (flag i)
StartsWithAt(text, p, word) ==
    /\ p + Len(word) - 1 <= Len(text)
    /\ \A k \in 1..Len(word) : LowerChar(text[p + k - 1]) = word[k]

\* Given|When|Then|And|But
StepKeywords ==
    {<<"g", "i", "v", "e", "n">>, <<"w", "h", "e", "n">>, <<"t", "h", "e", "n">>,
     <<"a", "n", "d">>, <<"b", "u", "t">>}

ScenarioWord == <<"s", "c", "e", "n", "a", "r", "i", "o">>

KeywordAt(text, p) == \E w \in StepKeywords : StartsWithAt(text, p, w)

\* \s* taken greedily from p: the first position that holds no blank
RECURSIVE SkipSpaces(_, _)
SkipSpaces(text, p) ==
    IF p <= Len(text) /\ IsSpace(text[p]) THEN SkipSpaces(text, p + 1) ELSE p

\* \d* taken greedily from p
RECURSIVE SkipDigits(_, _)
SkipDigits(text, p) ==
    IF p <= Len(text) /\ IsDigit(text[p]) THEN SkipDigits(text, p + 1) ELSE p

\* [^\n]* taken greedily from p: the position of the next line break, or the end
RECURSIVE LineEnd(_, _)
LineEnd(text, p) ==
    IF p <= Len(text) /\ text[p] # "\n" THEN LineEnd(text, p + 1) ELSE p

\* group 2 taken greedily: from the end e of a line, further lines are taken
\* while the next one does not begin, after blanks, with a keyword or Scenario
RECURSIVE TitleMaxEnd(_, _)
TitleMaxEnd(text, e) ==
    IF /\ e <= Len(text)
       /\ ~KeywordAt(text, SkipSpaces(text, e + 1))
       /\ ~StartsWithAt(text, SkipSpaces(text, e + 1), ScenarioWord)
    THEN TitleMaxEnd(text, LineEnd(text, e + 1))
    ELSE e

\* (?:\n\s*)* followed by a keyword: where group 3 starts when group 2 ends
\* at p, 0 when it cannot start
StepsStart(text, p) ==
    IF KeywordAt(text, p) THEN p
    ELSE IF p <= Len(text) /\ text[p] = "\n" /\ KeywordAt(text, SkipSpaces(text, p + 1))
    THEN SkipSpaces(text, p + 1)
    ELSE 0

\* group 2 started at t: the longest title after which group 3 can start
\* (backtracking gives characters back one at a time), 0 when there is none
MatchTitle(text, t) ==
    LastIndex({p \in t..TitleMaxEnd(text, LineEnd(text, t)) : StepsStart(text, p) # 0})

\* group 3 taken greedily: from the end e of a line, further lines are taken
\* while the next one does not begin with Scenario
RECURSIVE BlockEnd(_, _)
BlockEnd(text, e) ==
    IF e <= Len(text) /\ ~StartsWithAt(text, e + 1, ScenarioWord)
    THEN BlockEnd(text, LineEnd(text, e + 1))
    ELSE e

\* The starts of group 2 the matcher tries after the word Scenario, in the
\* order it tries them.  Every \s* is tried from its longest run down to
\* nothing, the number and the colon are tried present before absent.
\* third \s*
AfterColon(text, x) ==
    [k \in 1..(SkipSpaces(text, x) - x + 1) |-> SkipSpaces(text, x) + 1 - k]

\* :?
AtColon(text, x) ==
    IF x <= Len(text) /\ text[x] = ":"
    THEN AfterColon(text, x + 1) \o AfterColon(text, x)
    ELSE AfterColon(text, x)

\* second \s*, b blanks taken
RECURSIVE AfterNumber(_, _, _)
AfterNumber(text, x, b) ==
    IF b < 0 THEN <<>> ELSE AtColon(text, x + b) \o AfterNumber(text, x, b - 1)

\* group 1 as taken, with each start of group 2 that goes with it
Numbered(number, starts) ==
    [k \in 1..Len(starts) |-> [number |-> number, start |-> starts[k]]]

\* (\d+)?, d digits taken
RECURSIVE AtNumber(_, _, _)
AtNumber(text, x, d) ==
    Numbered(SubSeq(text, x, x + d - 1),
             AfterNumber(text, x + d, SkipSpaces(text, x + d) - (x + d)))
        \o (IF d = 0 THEN <<>> ELSE AtNumber(text, x, d - 1))

\* first \s*, a blanks taken
RECURSIVE AfterWord(_, _, _)
AfterWord(text, x, a) ==
    IF a < 0 THEN <<>>
    ELSE AtNumber(text, x + a, SkipDigits(text, x + a) - (x + a)) \o AfterWord(text, x, a - 1)

NoMatch == [index |-> 0]

\* the match array: Scenario at p, groups 1 and 2 as `try` says, group 2
\* ending at titleEnd
MatchWith(text, p, try, titleEnd) ==
    LET stepsStart == StepsStart(text, titleEnd)
        end == BlockEnd(text, LineEnd(text, stepsStart))
    IN  [index |-> p,
         number |-> try.number,
         title |-> SubSeq(text, try.start, titleEnd - 1),
         stepsBlock |-> SubSeq(text, stepsStart, end - 1),
         lastIndex |-> end]

\* the first of the tries after which the title and the steps match
FirstTry(text, p, tries) ==
    LET k == FirstIndex({j \in 1..Len(tries) : MatchTitle(text, tries[j].start) # 0})
    IN  IF k = 0 THEN NoMatch
        ELSE MatchWith(text, p, tries[k], MatchTitle(text, tries[k].start))

\* scenarioPattern tried at p, where the word Scenario stands
MatchAt(text, p) ==
    FirstTry(text, p,
             AfterWord(text, p + Len(ScenarioWord),
                       SkipSpaces(text, p + Len(ScenarioWord)) - (p + Len(ScenarioWord))))

\* scenarioPattern.exec with lastIndex = from - 1: the leftmost match, the
\* start positions tried one after the other
RECURSIVE exec(_, _)
LeftmostMatch(text, from, match) ==
    IF match.index # 0 THEN match ELSE exec(text, from + 1)

exec(text, from) ==
    IF from > Len(text) THEN NoMatch
    ELSE LeftmostMatch(text, from,
                       IF StartsWithAt(text, from, ScenarioWord) THEN MatchAt(text, from)
                       ELSE NoMatch)

\* /^(Given|When|Then|And|But)\s+/i
StepKeywordOf(line) ==
    {w \in StepKeywords : /\ StartsWithAt(line, 1, w)
                          /\ Len(line) > Len(w)
                          /\ IsSpace(line[Len(w) + 1])}

extractSteps(stepsBlock) ==
    LET lines == Split(stepsBlock, "\n")
        trimmed == [k \in 1..Len(lines) |-> Trim(lines[k])]
    IN  SelectSeq(trimmed, LAMBDA line : StepKeywordOf(line) # {})

\* /^then\s+/i
IsThen(step) ==
    StartsWithAt(step, 1, <<"t", "h", "e", "n">>) /\ Len(step) > 4 /\ IsSpace(step[5])

\* /^and\s+then\s+/i
IsAndThen(step) ==
    LET p == SkipSpaces(step, 4)
    IN  /\ StartsWithAt(step, 1, <<"a", "n", "d">>)
        /\ p > 4
        /\ StartsWithAt(step, p, <<"t", "h", "e", "n">>)
        /\ p + 4 <= Len(step)
        /\ IsSpace(step[p + 4])

\* step.replace(/^(Given|When|Then|And|But)\s+/i, '')
StripKeyword(step) ==
    IF StepKeywordOf(step) = {} THEN step
    ELSE LET w == CHOOSE k \in StepKeywordOf(step) : TRUE
         IN  SubSeq(step, SkipSpaces(step, Len(w) + 1), Len(step))

extractExpectedResult(steps) ==
    LET k == LastIndex({i \in 1..Len(steps) : IsThen(steps[i]) \/ IsAndThen(steps[i])})
    IN  IF k # 0
        THEN IF IsThen(steps[k])
             THEN Trim(SubSeq(steps[k], SkipSpaces(steps[k], 5), Len(steps[k])))
             ELSE Trim(SubSeq(steps[k], SkipSpaces(steps[k], SkipSpaces(steps[k], 4) + 4),
                              Len(steps[k])))
        ELSE IF Len(steps) > 0 THEN Trim(StripKeyword(steps[Len(steps)]))
        ELSE <<>>

RECURSIVE SkipLineBreaks(_)
SkipLineBreaks(s) == IF s # <<>> /\ Head(s) = "\n" THEN SkipLineBreaks(Tail(s)) ELSE s

\* s.replace(/\n+/g, ' ')
RECURSIVE ReplaceLineBreaks(_)
ReplaceLineBreaks(s) ==
    IF s = <<>> THEN <<>>
    ELSE IF Head(s) = "\n" THEN <<" ">> \o ReplaceLineBreaks(SkipLineBreaks(s))
         ELSE <<Head(s)>> \o ReplaceLineBreaks(Tail(s))

\* the decimal digits of a positive number, as a template literal prints it
RECURSIVE DecimalOf(_)
DecimalOf(n) ==
    LET digits == <<"0", "1", "2", "3", "4", "5", "6", "7", "8", "9">>
    IN  IF n < 10 THEN <<digits[n + 1]>>
        ELSE DecimalOf(n \div 10) \o <<digits[(n % 10) + 1]>>

\* `Scenario ${scenarioNumber || scenarios.length + 1}`
DefaultName(scenarioNumber, count) ==
    <<"S", "c", "e", "n", "a", "r", "i", "o", " ">>
        \o (IF scenarioNumber # <<>> THEN scenarioNumber ELSE DecimalOf(count + 1))

\* one turn of the while loop: the record of a match, appended unless the
\* match has no step
PushScenario(found, scenarioNumber, title, steps) ==
    LET trimmedTitle == Trim(ReplaceLineBreaks(Trim(title)))
        scenarioTitle == IF trimmedTitle # <<>> THEN trimmedTitle
                         ELSE DefaultName(scenarioNumber, Len(found))
    IN  IF Len(steps) = 0 THEN found
        ELSE Append(found,
                    [name |-> IF Trim(scenarioTitle) # <<>> THEN Trim(scenarioTitle)
                              ELSE DefaultName(scenarioNumber, Len(found)),
                     steps |-> steps,
                     expectedResult |-> extractExpectedResult(steps)])

\* the while loop over scenarioPattern.exec, from lastIndex = from - 1
RECURSIVE MarkedScenarios(_, _, _)
NextScenario(description_, found, match) ==
    IF match.index = 0 THEN found
    ELSE MarkedScenarios(description_, match.lastIndex,
                         PushScenario(found, match.number, match.title,
                                      extractSteps(match.stepsBlock)))

MarkedScenarios(description_, from, found) ==
    NextScenario(description_, found, exec(description_, from))

(***************************************************************************)
(* GherkinParser: the fallback pass.  whenThenPattern is                   *)
(*   When\s+(.+?) (?:\n(?:And|But)\s+(.+?))* \nThen\s+(.+?)                  *)
(*   (?:\n(?:And|But)\s+(.+?))* (?=\n\n|\nWhen\s+|$)     with flags g, i, s  *)
(* Each operator below matches the pattern from one of its positions on    *)
(* and answers with the end of the match (0 when it fails) and the groups  *)
(* captured on the way; <<>> stands for a group that took no part.         *)
(***************************************************************************)
WhenWord == <<"w", "h", "e", "n">>

ThenWord == <<"t", "h", "e", "n">>

\* \n(?:And|But)\s at p, without regard to case
ContinuationAt(text, p) ==
    /\ p + 4 <= Len(text)
    /\ text[p] = "\n"
    /\ StartsWithAt(text, p + 1, <<"a", "n", "d">>) \/ StartsWithAt(text, p + 1, <<"b", "u", "t">>)
    /\ IsSpace(text[p + 4])

\* (?=\n\n|\nWhen\s+|$)
BlockEndsAt(text, p) ==
    \/ p = Len(text) + 1
    \/ p + 1 <= Len(text) /\ text[p] = "\n" /\ text[p + 1] = "\n"
    \/ /\ p + 5 <= Len(text)
       /\ text[p] = "\n"
       /\ StartsWithAt(text, p + 1, WhenWord)
       /\ IsSpace(text[p + 5])

\* Of the pairs <<blanks taken by \s+, end of the lazy group>> after which
\* the rest matches, the one the matcher reaches first: most blanks, then
\* the shortest group.
FirstChoice(pairs) ==
    CHOOSE c \in pairs : \A d \in pairs : c[1] > d[1] \/ (c[1] = d[1] /\ c[2] <= d[2])

\* \s+(.+?) from position s: the pairs <<blanks taken, end of the group>>
\* the matcher may try
Pairs(text, s) ==
    {c \in (1..(SkipSpaces(text, s) - s)) \X ((s + 2)..(Len(text) + 1)) : c[2] > s + c[1]}

\* the group \s+(.+?) took from position s under the choice c
GroupOf(text, s, c) == SubSeq(text, s + c[1], c[2] - 1)

\* a repetition keeps the capture of its last turn
LastCapture(later, here) == IF later # <<>> THEN later ELSE here

\* the second (?:\n(?:And|But)\s+(.+?))* and the lookahead
RECURSIVE AfterThen(_, _)
WithGroup4(group, rest) == [end |-> rest.end, g4 |-> LastCapture(rest.g4, group)]

TakeGroup4(text, s, c) == WithGroup4(GroupOf(text, s, c), AfterThen(text, c[2]))

AfterThen(text, p) ==
    LET pairs == IF ContinuationAt(text, p)
                 THEN {c \in Pairs(text, p + 4) : AfterThen(text, c[2]).end # 0}
                 ELSE {}
    IN  IF pairs # {} THEN TakeGroup4(text, p + 4, FirstChoice(pairs))
        ELSE IF BlockEndsAt(text, p) THEN [end |-> p, g4 |-> <<>>]
        ELSE [end |-> 0, g4 |-> <<>>]

\* \nThen\s+(.+?) and what follows
WithGroup3(group, rest) == [end |-> rest.end, g2 |-> <<>>, g3 |-> group, g4 |-> rest.g4]

TakeGroup3(text, s, c) == WithGroup3(GroupOf(text, s, c), AfterThen(text, c[2]))

ThenAt(text, p) ==
    LET pairs == IF /\ p + 5 <= Len(text)
                    /\ text[p] = "\n"
                    /\ StartsWithAt(text, p + 1, ThenWord)
                 THEN {c \in Pairs(text, p + 5) : AfterThen(text, c[2]).end # 0}
                 ELSE {}
    IN  IF pairs = {} THEN [end |-> 0, g2 |-> <<>>, g3 |-> <<>>, g4 |-> <<>>]
        ELSE TakeGroup3(text, p + 5, FirstChoice(pairs))

\* the first (?:\n(?:And|But)\s+(.+?))* and what follows
RECURSIVE AfterWhen(_, _)
WithGroup2(group, rest) ==
    [end |-> rest.end, g2 |-> LastCapture(rest.g2, group), g3 |-> rest.g3, g4 |-> rest.g4]

TakeGroup2(text, s, c) == WithGroup2(GroupOf(text, s, c), AfterWhen(text, c[2]))

AfterWhen(text, p) ==
    LET pairs == IF ContinuationAt(text, p)
                 THEN {c \in Pairs(text, p + 4) : AfterWhen(text, c[2]).end # 0}
                 ELSE {}
    IN  IF pairs # {} THEN TakeGroup2(text, p + 4, FirstChoice(pairs))
        ELSE ThenAt(text, p)

\* whenThenPattern tried at p, where the word When stands
WithGroup1(p, group, rest) ==
    [index |-> p, g1 |-> group, g2 |-> rest.g2, g3 |-> rest.g3, g4 |-> rest.g4,
     lastIndex |-> rest.end]

TakeGroup1(text, p, c) == WithGroup1(p, GroupOf(text, p + 4, c), AfterWhen(text, c[2]))

WhenAt(text, p) ==
    LET pairs == {c \in Pairs(text, p + 4) : AfterWhen(text, c[2]).end # 0}
    IN  IF pairs = {} THEN NoMatch ELSE TakeGroup1(text, p, FirstChoice(pairs))

\* whenThenPattern.exec with lastIndex = from - 1: the leftmost match, the
\* start positions tried one after the other
RECURSIVE execWhenThen(_, _)
LeftmostWhenThen(text, from, match) ==
    IF match.index # 0 THEN match ELSE execWhenThen(text, from + 1)

execWhenThen(text, from) ==
    IF from > Len(text) THEN NoMatch
    ELSE LeftmostWhenThen(text, from,
                          IF StartsWithAt(text, from, WhenWord) THEN WhenAt(text, from)
                          ELSE NoMatch)

\* \n(?:And|But)\s+ at p, case as written: the position after it, 0 when absent
SeparatorEnd(s, p) ==
    IF /\ p + 4 <= Len(s)
       /\ s[p] = "\n"
       /\ SubSeq(s, p + 1, p + 3) \in {<<"A", "n", "d">>, <<"B", "u", "t">>}
       /\ IsSpace(s[p + 4])
    THEN SkipSpaces(s, p + 4)
    ELSE 0

\* s.split(/\n(?:And|But)\s+/), from position p with the piece cur in hand
RECURSIVE SplitSteps(_, _, _)
SplitSteps(s, p, cur) ==
    IF p > Len(s) THEN <<cur>>
    ELSE IF SeparatorEnd(s, p) # 0 THEN <<cur>> \o SplitSteps(s, SeparatorEnd(s, p), <<>>)
    ELSE SplitSteps(s, p + 1, Append(cur, s[p]))

\* match[2] and match[4]: split, drop the blank pieces, trim
andSteps(group) ==
    LET pieces == SelectSeq(SplitSteps(group, 1, <<>>), LAMBDA piece : Trim(piece) # <<>>)
    IN  [k \in 1..Len(pieces) |-> Trim(pieces[k])]

\* the steps pushed for a match: group 1, the pieces of group 2, group 3,
\* the pieces of group 4
MatchSteps(match) ==
    <<Trim(match.g1)>>
        \o (IF match.g2 # <<>> THEN andSteps(match.g2) ELSE <<>>)
        \o <<Trim(match.g3)>>
        \o (IF match.g4 # <<>> THEN andSteps(match.g4) ELSE <<>>)

\* scenarios.push of the fallback loop, scenarioIndex = Len(found) + 1
PushFallback(found, steps) ==
    Append(found,
           [name |-> DefaultName(<<>>, Len(found)),
            steps |-> steps,
            expectedResult |-> steps[Len(steps)]])

\* the while loop over whenThenPattern.exec, from lastIndex = from - 1
RECURSIVE FallbackScenarios(_, _, _)
NextFallback(description_, found, match) ==
    IF match.index = 0 THEN found
    ELSE FallbackScenarios(description_, match.lastIndex,
                           PushFallback(found, MatchSteps(match)))

FallbackScenarios(description_, from, found) ==
    NextFallback(description_, found, execWhenThen(description_, from))

parseFallbackScenarios(description_) == FallbackScenarios(description_, 1, <<>>)

\* if (scenarios.length === 0) scenarios.push(...fallbackScenarios)
WithFallback(description_, found) ==
    IF Len(found) = 0 THEN parseFallbackScenarios(description_) ELSE found

parseScenarios(description_) ==
    IF Trim(description_) = <<>> THEN <<>>
    ELSE WithFallback(description_, MarkedScenarios(description_, 1, <<>>))

(***************************************************************************)
(* The testCase object syncTicketToTestRail builds for a scenario.         *)
(***************************************************************************)
\* the index of the last step that starts with Then or And then, 0 for none
lastThenIndex(steps) ==
    LastIndex({i \in 1..Len(steps) : IsThen(steps[i]) \/ IsAndThen(steps[i])})

convertStepsToTestRailFormat(scenario) ==
    IF lastThenIndex(scenario.steps) = 0
    THEN [k \in 1..Len(scenario.steps) |-> [content |-> scenario.steps[k], expected |-> <<>>]]
    ELSE [k \in 1..(lastThenIndex(scenario.steps) - 1) |->
             [content |-> scenario.steps[k], expected |-> <<>>]]

\* parts.join('\n')
RECURSIVE JoinLines(_)
JoinLines(parts) ==
    IF Len(parts) = 0 THEN <<>>
    ELSE IF Len(parts) = 1 THEN parts[1]
    ELSE parts[1] \o <<"\n">> \o JoinLines(Tail(parts))

testCaseOf(scenario) ==
    LET expectedResultParts ==
            IF lastThenIndex(scenario.steps) = 0 THEN <<>>
            ELSE SubSeq(scenario.steps, lastThenIndex(scenario.steps), Len(scenario.steps))
    IN  [title |-> scenario.name,
         steps |-> convertStepsToTestRailFormat(scenario),
         expected |-> IF Len(expectedResultParts) > 0 THEN JoinLines(expectedResultParts)
                      ELSE scenario.expectedResult]

(***************************************************************************)
(* The parser and the payload construction on their own: parseScenarios    *)
(* applied to a description, then the testCase object of every record.     *)
(***************************************************************************)
\* the lines a description is made of
LinePool ==
    {<<"S", "c", "e", "n", "a", "r", "i", "o", " ", "1", ":", " ", "A">>,
     <<"S", "c", "e", "n", "a", "r", "i", "o", ":">>,
     <<"B">>,
     <<>>,
     <<" ">>,
     <<"W", "h", "e", "n", " ", "b">>,
     <<"T", "h", "e", "n", " ", "d">>,
     <<"T", "h", "e", "n", " ", "a", "n", "d", " ", "x">>,
     <<"A", "n", "d", " ", "e">>}

\* every text of at most max lines of the pool
Descriptions(max) ==
    UNION { {JoinLines(f) : f \in [1..n -> LinePool]} : n \in 0..max }

ParserInit ==
    /\ suites = <<>>
    /\ sections = <<>>
    /\ cases = <<>>
    /\ nextId = 200
    /\ options = [jiraKey |-> IssueKey, suiteId |-> 0, suiteName |-> <<>>, sectionId |-> 10,
                  sectionName |-> <<>>, createSuite |-> FALSE, createSection |-> FALSE,
                  dryRun |-> TRUE]
    /\ issue = [key |-> IssueKey, scenarios |-> <<>>]
    /\ run = 1
    /\ casesAtStart = <<>>
    /\ RunLocalInit
    /\ description \in Descriptions(MaxLines)
    /\ parserPc = "parse"
    /\ parsed = <<>>
    /\ testCases = <<>>
    /\ preview = NewResult

\* Step 2: scenarios = parseScenarios(description)
ParseDescription ==
    /\ parserPc = "parse"
    /\ parsed' = parseScenarios(description)
    /\ parserPc' = "convert"
    /\ UNCHANGED <<syncVars, description, testCases, preview>>

\* Step 4, for the next scenario: the testCase object
BuildTestCase ==
    /\ parserPc = "convert"
    /\ Len(testCases) < Len(parsed)
    /\ testCases' = Append(testCases, testCaseOf(parsed[Len(testCases) + 1]))
    /\ UNCHANGED <<syncVars, description, parserPc, parsed, preview>>

ParserNext ==
    \/ ParseDescription
    \/ BuildTestCase

ParserSpec == ParserInit /\ [][ParserNext]_vars

(***************************************************************************)
(* Vocabulary of the properties.                                           *)
(***************************************************************************)
IsCaseWrite(c) == c.op \in {"createCase", "updateCase", "deleteCase"}

IsMutation(c) == IsCaseWrite(c) \/ c.op \in {"createSuite", "createSection"}

CallsOf(ops) == SelectSeq(calls, LAMBDA c : c.op \in ops)

\* two titles are the same when they agree after lowercasing and trimming
SameTitle(a, b) == Trim(ToLowerCase(a)) = Trim(ToLowerCase(b))

\* the cases the run found in its section that carry the key argument in refs
ManagedAtStart ==
    SelectSeq(casesAtStart, LAMBDA tc : /\ tc.section_id = sectionId
                                        /\ Includes(tc.refs, options.jiraKey))

\* a managed case with the title of the scenario exists
HasMatch(sc) == \E k \in 1..Len(ManagedAtStart) : SameTitle(ManagedAtStart[k].title, sc.name)

\* the scenario loop and the delete loop are over
Completed == pc \in {"returned", "exited"} /\ ~raised /\ CliAccepts(options)

\* C1: a second run of the same non-dry-run command, after a first run that
\* completed without error and with the ticket unchanged, issues no createCase
\* and no deleteCase call.
SecondRunCreatesAndDeletesNothing ==
    (run >= 2 /\ ~options.dryRun) =>
        \A k \in 1..Len(calls) : calls[k].op \notin {"createCase", "deleteCase"}

\* C2: a case whose refs does not contain the ticket key is never put in the
\* delete list, never deleted and never updated: it stays in the store as it was.
DeletionRespectsOwnership ==
    /\ \A k \in 1..Len(testCasesToDelete) :
          Includes(testCasesToDelete[k].refs, options.jiraKey)
    /\ \A k \in 1..Len(casesAtStart) :
          ~Includes(casesAtStart[k].refs, options.jiraKey) =>
              /\ casesAtStart[k] \in SeqRange(cases)
              /\ \A j \in 1..Len(calls) :
                    calls[j].op \in {"updateCase", "deleteCase"} =>
                        calls[j].id # casesAtStart[k].id

\* C2 witness: a foreign case whose title is no scenario's sits in the section
\* while a managed case of the same section has been deleted.
ForeignCaseSurvivesDeletion ==
    /\ pc = "returned"
    /\ \E k \in 1..Len(calls) : calls[k].op = "deleteCase" /\ calls[k].ok
    /\ \E k \in 1..Len(casesAtStart) :
          /\ casesAtStart[k].section_id = sectionId
          /\ ~Includes(casesAtStart[k].refs, options.jiraKey)
          /\ \A j \in 1..Len(scenarios) : ~SameTitle(scenarios[j].name, casesAtStart[k].title)

\* C3: when a run completes, every managed case of the section whose title is
\* no parsed scenario's has received a delete action, whatever the number of
\* scenarios.
EveryOrphanGetsDeleteAction ==
    (pc = "returned") =>
        \A k \in 1..Len(ManagedAtStart) :
            (\A j \in 1..Len(scenarios) :
                 ~SameTitle(scenarios[j].name, ManagedAtStart[k].title)) =>
                \E j \in 1..Len(testCasesToDelete) :
                    /\ testCasesToDelete[j].id = ManagedAtStart[k].id
                    /\ options.dryRun \/ \E c \in 1..Len(calls) :
                          calls[c].op = "deleteCase" /\ calls[c].id = ManagedAtStart[k].id

\* the scenarios the loop is done with
ProcessedScenarios ==
    IF pc = "scenario" THEN scenarioIdx - 1
    ELSE IF pc \in {"delete", "returned", "exited"} /\ scenarioIdx > 0 THEN Len(scenarios)
    ELSE 0

\* the entries of the delete list the loop is done with
ProcessedDeletes ==
    IF pc = "delete" THEN deleteIdx - 1
    ELSE IF pc \in {"returned", "exited"} THEN Len(testCasesToDelete)
    ELSE 0

ScenarioCalls == CallsOf({"createCase", "updateCase"})

DeleteCalls == CallsOf({"deleteCase"})

FailedCaseWrites == Len(SelectSeq(calls, LAMBDA c : IsCaseWrite(c) /\ ~c.ok))

\* the managed cases of the section whose title is no scenario's
Orphans ==
    SelectSeq(ManagedAtStart, LAMBDA tc : \A j \in 1..Len(scenarios) :
                                  ~SameTitle(scenarios[j].name, tc.title))

PositionAtStart(id) == FirstIndex({i \in 1..Len(casesAtStart) : casesAtStart[i].id = id})

\* C4: each scenario the loop has handled got exactly one action, an update
\* of a managed case with the same title (lowercased, trimmed) when there is
\* one, a create otherwise; nothing else is a match.
OneActionPerScenario ==
    /\ ~options.dryRun =>
          /\ Len(ScenarioCalls) = ProcessedScenarios
          /\ \A k \in 1..Len(ScenarioCalls) :
                /\ ScenarioCalls[k].title = scenarios[k].name
                /\ ScenarioCalls[k].op = "updateCase" <=> HasMatch(scenarios[k])
                /\ ScenarioCalls[k].op = "updateCase" =>
                      \E m \in 1..Len(ManagedAtStart) :
                          /\ ManagedAtStart[m].id = ScenarioCalls[k].id
                          /\ SameTitle(ManagedAtStart[m].title, scenarios[k].name)
                /\ ScenarioCalls[k].op = "createCase" => ScenarioCalls[k].id = sectionId
    /\ options.dryRun =>
          /\ result.scenariosUpdated =
                Cardinality({k \in 1..ProcessedScenarios : HasMatch(scenarios[k])})
          /\ result.scenariosCreated =
                Cardinality({k \in 1..ProcessedScenarios : ~HasMatch(scenarios[k])})

\* C4 witness: "L" has updated the case titled " l " and "x" has been created,
\* while the managed case "Lo" was no match for "L".
UpdateByNormalisedTitle ==
    /\ pc \in {"delete", "returned"}
    /\ \E k \in 1..Len(calls), m \in 1..Len(casesAtStart) :
          /\ calls[k].op = "updateCase" /\ calls[k].ok
          /\ calls[k].id = casesAtStart[m].id
          /\ casesAtStart[m].title # calls[k].title
    /\ \E k \in 1..Len(calls) : calls[k].op = "createCase"
    /\ \E m \in 1..Len(ManagedAtStart) : ManagedAtStart[m].title = <<"L", "o">>

\* C5: a failed create, update or delete never ends the run: each failure is
\* one message and one skipped, and when the run returns every scenario and
\* every orphan has had its call.
FailureIsolation ==
    /\ result.scenariosSkipped = FailedCaseWrites
    /\ Len(result.errors) = FailedCaseWrites + (IF raised THEN 1 ELSE 0)
    /\ FailedCaseWrites > 0 => ~raised
    /\ (Completed /\ ~options.dryRun /\ Len(scenarios) > 0) =>
          /\ Len(ScenarioCalls) = Len(scenarios)
          /\ Len(DeleteCalls) = Len(Orphans)

\* C5 witness: a scenario call failed and a later one succeeded, a delete call
\* failed and a later one succeeded, and the run returned.
RunSurvivesFailures ==
    /\ pc = "returned"
    /\ \E a, b \in 1..Len(calls) :
          /\ a < b
          /\ calls[a].op \in {"createCase", "updateCase"} /\ ~calls[a].ok
          /\ calls[b].op \in {"createCase", "updateCase"} /\ calls[b].ok
    /\ \E a, b \in 1..Len(calls) :
          /\ a < b
          /\ calls[a].op = "deleteCase" /\ ~calls[a].ok
          /\ calls[b].op = "deleteCase" /\ calls[b].ok

\* C6: create and update calls follow the order of the parsed scenarios, no
\* create or update call follows a delete call, and delete calls follow the
\* order of the case listing.
ActionOrdering ==
    /\ \A k \in 1..Len(ScenarioCalls) : ScenarioCalls[k].title = scenarios[k].name
    /\ \A a, b \in 1..Len(calls) :
          (a < b /\ calls[a].op = "deleteCase") =>
              /\ calls[b].op \notin {"createCase", "updateCase"}
              /\ calls[b].op = "deleteCase" =>
                    PositionAtStart(calls[a].id) < PositionAtStart(calls[b].id)

\* C6 witness: two scenarios with different names and two deletes have been issued.
TwoScenariosThenTwoDeletes ==
    /\ pc = "returned"
    /\ Len(ScenarioCalls) = 2
    /\ ScenarioCalls[1].title # ScenarioCalls[2].title
    /\ Len(DeleteCalls) = 2

\* C7: a dry run issues no createSuite, createSection, createCase, updateCase
\* or deleteCase call and leaves the store as it was, and its counters count
\* one created or updated per scenario handled and one deleted per orphan handled.
DryRunMutatesNothing ==
    options.dryRun =>
        /\ \A k \in 1..Len(calls) : ~IsMutation(calls[k])
        /\ cases = casesAtStart
        /\ Len(suites) = 1 /\ sections \in {BaseSections, NestedSections}
        /\ result.scenariosCreated + result.scenariosUpdated = ProcessedScenarios
        /\ result.scenariosUpdated =
              Cardinality({k \in 1..ProcessedScenarios : HasMatch(scenarios[k])})
        /\ result.scenariosDeleted = ProcessedDeletes
        /\ (pc \in {"returned", "exited"} /\ ~raised /\ Len(scenarios) > 0) =>
              ProcessedDeletes = Len(Orphans)

\* C7 witness: a dry run has returned having counted a create, an update and a delete.
DryRunCountsAllThree ==
    /\ options.dryRun
    /\ pc = "returned"
    /\ result.scenariosCreated >= 1
    /\ result.scenariosUpdated >= 1
    /\ result.scenariosDeleted >= 1

\* the suite the options name is absent from the store
SuiteMissing ==
    /\ options.suiteName # <<>>
    /\ options.suiteId = 0
    /\ findSuiteByName(suites, options.suiteName) = 0

\* C8: a dry run whose remote reads all succeed, and which may create
\* whatever suite or section is missing, does not raise: it goes on to the
\* ticket fetch with a placeholder identifier.
DryRunContinuesPastMissingContainers ==
    (/\ options.dryRun
     /\ CliAccepts(options)
     /\ SuiteMissing => options.createSuite
     /\ options.createSection
     /\ \A k \in 1..Len(calls) : calls[k].ok)
    => pc # "thrown"

\* the remote calls of the setup phase whose failure is not caught locally
SetupOps ==
    {"getSuites", "createSuite", "getSections", "createSection", "fetchTicket", "getTestCases"}

\* C9: a failed call of the setup phase (suite and section resolution, ticket
\* fetch, case listing) makes the run raise, a run that raises has issued no
\* createCase, updateCase or deleteCase call, and a failed case call never
\* makes the run raise.
SetupFailuresAreFatal ==
    /\ (\E k \in 1..Len(calls) : calls[k].op \in SetupOps /\ ~calls[k].ok) =>
          raised /\ pc \in {"thrown", "exited"}
    /\ raised => \A k \in 1..Len(calls) : ~IsCaseWrite(calls[k])
    /\ (\E k \in 1..Len(calls) : IsCaseWrite(calls[k]) /\ ~calls[k].ok) =>
          ~raised /\ pc # "thrown"

\* C9 witness: the ticket fetch failed for a ticket with scenarios and a
\* section with a managed case, and the run raised.
FetchFailureRaises ==
    /\ pc = "thrown"
    /\ ~options.dryRun
    /\ \E k \in 1..Len(calls) : calls[k].op = "fetchTicket" /\ ~calls[k].ok
    /\ Len(issue.scenarios) > 0
    /\ Len(ManagedAtStart) > 0

\* C10: the command exits 0 exactly when the run returned with no recorded
\* error (zero scenarios included) and 1 exactly when it raised or recorded
\* an error; a run that recorded a per-action error has still handled every
\* scenario and every orphan.
ExitStatusReflectsOutcome ==
    (pc = "exited" /\ CliAccepts(options)) =>
        /\ exitCode = 0 <=> (~raised /\ (Len(result.errors) = 0 \/ result.scenariosFound = 0))
        /\ exitCode = 1 <=> (raised \/ Len(result.errors) > 0)
        /\ (~raised /\ result.scenariosFound = 0) => Len(result.errors) = 0
        /\ (~raised /\ Len(result.errors) > 0) =>
              /\ ProcessedScenarios = Len(scenarios)
              /\ ProcessedDeletes = Len(Orphans)
              /\ ~options.dryRun =>
                    Len(ScenarioCalls) = Len(scenarios) /\ Len(DeleteCalls) = Len(Orphans)

\* C10 witness: a run whose first scenario call failed went on to a
\* successful call and exited 1 without raising.
ExitOneAfterCompletedRun ==
    /\ pc = "exited"
    /\ ~raised
    /\ exitCode = 1
    /\ \E a, b \in 1..Len(calls) :
          a < b /\ IsCaseWrite(calls[a]) /\ ~calls[a].ok /\ calls[b].ok

\* how many of suite id, suite name and section id the command line gives
AddressingCount ==
    (IF options.suiteId # 0 THEN 1 ELSE 0) + (IF options.suiteName # <<>> THEN 1 ELSE 0)
        + (IF options.sectionId # 0 THEN 1 ELSE 0)

\* C11: a command line that gives none, or more than one, of suite id, suite
\* name and section id is rejected with exit status 1 before any step of the
\* hierarchy resolution and before any remote call.
AddressingValidatedFirst ==
    AddressingCount # 1 =>
        /\ calls = <<>>
        /\ pc \in {"start", "exited"}
        /\ pc = "exited" => exitCode = 1
        /\ sectionId = 0 /\ resolvedSuiteId = options.suiteId /\ ~raised

\* C11 witness: a command line with both a suite id and a section id has been rejected.
TwoAddressesRejected ==
    /\ pc = "exited"
    /\ exitCode = 1
    /\ options.suiteId # 0 /\ options.sectionId # 0
    /\ calls = <<>>

\* the sections the store held when the run began: the run appends one per
\* successful createSection call
SectionsAtStart ==
    SubSeq(sections, 1,
           Len(sections) - Len(SelectSeq(calls, LAMBDA c : c.op = "createSection" /\ c.ok)))

\* the ids of the leading segments of the path that exist in the suite, each
\* a child of the one before it (the first at top level)
RECURSIVE ExistingPrefix(_, _, _, _)
ExistingPrefix(secs, parts, i, parent) ==
    IF i > Len(parts) THEN <<>>
    ELSE LET hits == {j \in 1..Len(secs) :
                        /\ SameTitle(secs[j].name, parts[i])
                        /\ secs[j].parent_id = parent}
         IN  IF hits = {} THEN <<>>
             ELSE LET first == CHOOSE j \in hits : \A m \in hits : j <= m
                  IN  <<secs[first].id>> \o ExistingPrefix(secs, parts, i + 1, secs[first].id)

\* the segments of the section path: split on "/", trimmed, empty ones dropped
PathSegments ==
    SelectSeq([k \in 1..Len(Split(options.sectionName, "/")) |->
                   Trim(Split(options.sectionName, "/")[k])],
              LAMBDA part : part # <<>>)

\* the section path has been resolved in a run that may create sections
PathResolved ==
    /\ ~options.dryRun
    /\ options.createSection
    /\ Len(PathSegments) >= 1
    /\ sectionId # 0
    /\ pc \in {"fetch", "list", "scenario", "delete", "returned"}

\* C12: resolving an n-segment path whose first k segments exist issues
\* exactly n-k createSection calls, in path order, each under the section
\* found or created for the segment before it, and resolves to the last
\* segment's id.
PathCreationFillsMissingSegments ==
    PathResolved =>
        LET old == SelectSeq(SectionsAtStart, LAMBDA se : se.suite_id = resolvedSuiteId)
            chain == ExistingPrefix(old, PathSegments, 1, 0)
            \* a one-segment path also exists as a section of that name at any depth
            named == {i \in 1..Len(old) : SameTitle(old[i].name, PathSegments[1])}
            found == IF Len(PathSegments) = 1 /\ chain = <<>> /\ named # {}
                     THEN <<old[FirstIndex(named)].id>> ELSE chain
            k == Len(found)
            n == Len(PathSegments)
            creates == CallsOf({"createSection"})
            \* the id of the section that stands for segment m
            IdOf(m) == IF m = 0 THEN 0
                       ELSE IF m <= k THEN found[m]
                       ELSE sections[Len(SectionsAtStart) + (m - k)].id
        IN  /\ Len(creates) = n - k
            /\ \A j \in 1..Len(creates) :
                  /\ creates[j].ok
                  /\ creates[j].title = PathSegments[k + j]
                  /\ creates[j].id = IdOf(k + j - 1)
            /\ sectionId = IdOf(n)

(***************************************************************************)
(* Vocabulary of the parser's properties: the description read line by     *)
(* line, as the documentation describes a scenario block.                  *)
(***************************************************************************)
DescriptionLines == Split(description, "\n")

\* a line that, trimmed, starts with a step keyword and white space
IsStepLine(line) == StepKeywordOf(Trim(line)) # {}

\* a line that opens a scenario block
IsMarkerLine(line) == StartsWithAt(line, 1, ScenarioWord)

MarkerIndices == {i \in 1..Len(DescriptionLines) : IsMarkerLine(DescriptionLines[i])}

RECURSIVE Ascending(_)
Ascending(set) ==
    IF set = {} THEN <<>>
    ELSE LET least == CHOOSE i \in set : \A j \in set : i <= j
         IN  <<least>> \o Ascending(set \ {least})

\* the last line of the block opened by the marker on line m
BlockLast(m) ==
    LET later == {i \in MarkerIndices : i > m}
    IN  IF later = {} THEN Len(DescriptionLines)
        ELSE (CHOOSE i \in later : \A j \in later : i <= j) - 1

\* the trimmed lines of DescriptionLines[from..to] that are step lines
StepLinesIn(from, to) ==
    LET span == SubSeq(DescriptionLines, from, to)
    IN  SelectSeq([k \in 1..Len(span) |-> Trim(span[k])], IsStepLine)

\* the step lines of the block opened on line m
BlockSteps(m) == StepLinesIn(m + 1, BlockLast(m))

\* the marker lines whose block has a step line, in source order
StepBlocks == Ascending({m \in MarkerIndices : BlockSteps(m) # <<>>})

Parsed == parserPc = "convert"

\* C13: for every scenario block whose step lines contain a step starting
\* with Then (or And then), the record's steps are the step lines before the
\* last such step and its expectedResult is that step and every step after
\* it, joined by line breaks.
ParsedRecordShape ==
    Parsed =>
        \A k \in 1..Len(StepBlocks) :
            LET lines == BlockSteps(StepBlocks[k])
                last == lastThenIndex(lines)
            IN  last # 0 =>
                    /\ k <= Len(parsed)
                    /\ parsed[k].steps = SubSeq(lines, 1, last - 1)
                    /\ parsed[k].expectedResult = JoinLines(SubSeq(lines, last, Len(lines)))

\* the text of a marker line after Scenario, its number and its colon
MarkerTitle(line) ==
    LET afterNumber == SkipSpaces(line, SkipDigits(line, SkipSpaces(line, Len(ScenarioWord) + 1)))
        afterColon == IF afterNumber <= Len(line) /\ line[afterNumber] = ":"
                      THEN afterNumber + 1 ELSE afterNumber
    IN  Trim(SubSeq(line, afterColon, Len(line)))

\* the digits of a marker line, <<>> when it has no number
MarkerNumber(line) ==
    LET start == SkipSpaces(line, Len(ScenarioWord) + 1)
    IN  SubSeq(line, start, SkipDigits(line, start) - 1)

\* the first step line of the block opened on line m (the block has one)
FirstStepLine(m) ==
    CHOOSE i \in (m + 1)..BlockLast(m) :
        /\ IsStepLine(DescriptionLines[i])
        /\ \A j \in (m + 1)..(i - 1) : ~IsStepLine(DescriptionLines[j])

\* the non-blank lines of the title region of the block opened on line m, trimmed
TitleLines(m) ==
    LET region == <<MarkerTitle(DescriptionLines[m])>>
                      \o SubSeq(DescriptionLines, m + 1, FirstStepLine(m) - 1)
    IN  SelectSeq([k \in 1..Len(region) |-> Trim(region[k])], LAMBDA line : line # <<>>)

RECURSIVE JoinWords(_)
JoinWords(parts) ==
    IF Len(parts) = 0 THEN <<>>
    ELSE IF Len(parts) = 1 THEN parts[1]
    ELSE parts[1] \o <<" ">> \o JoinWords(Tail(parts))

\* C14: for every scenario block with a title, the record's name is the
\* non-blank lines of the title region, each trimmed and joined by exactly
\* one space; it holds no line break and no run of two or more spaces.
MultiLineTitle ==
    Parsed =>
        \A k \in 1..Len(StepBlocks) :
            LET title == JoinWords(TitleLines(StepBlocks[k]))
            IN  title # <<>> =>
                    /\ k <= Len(parsed)
                    /\ parsed[k].name = title
                    /\ \A i \in 1..Len(parsed[k].name) :
                          /\ parsed[k].name[i] # "\n"
                          /\ i > 1 => ~(parsed[k].name[i] = " " /\ parsed[k].name[i - 1] = " ")

\* C15: when a marker is followed directly by its step lines, the record's
\* name is "Scenario " followed by the marker's number, or by the 1-based
\* position of the scenario when the marker has no number, and the record's
\* steps are all the step lines of the block.
SynthesizedName ==
    Parsed =>
        \A k \in 1..Len(StepBlocks) :
            LET m == StepBlocks[k]
                number == MarkerNumber(DescriptionLines[m])
            IN  TitleLines(m) = <<>> =>
                    /\ k <= Len(parsed)
                    /\ parsed[k].name = <<"S", "c", "e", "n", "a", "r", "i", "o", " ">>
                                           \o (IF number # <<>> THEN number ELSE DecimalOf(k))
                    /\ parsed[k].steps = BlockSteps(m)

\* line i of the description opens with one of the keywords and white space
LineOpensWith(i, keywords) ==
    /\ i \in 1..Len(DescriptionLines)
    /\ StepKeywordOf(DescriptionLines[i]) \cap keywords # {}

ContinuationWords == {<<"a", "n", "d">>, <<"b", "u", "t">>}

\* the first line from i on that is not an And/But continuation line
RECURSIVE SkipContinuations(_)
SkipContinuations(i) ==
    IF LineOpensWith(i, ContinuationWords) THEN SkipContinuations(i + 1) ELSE i

\* the Then line of the When...Then block that opens on line i, 0 when line i
\* opens no block
BlockThen(i) ==
    LET then == SkipContinuations(i + 1)
    IN  IF LineOpensWith(i, {WhenWord}) /\ LineOpensWith(then, {ThenWord}) THEN then ELSE 0

\* the last line of the When...Then block that opens on line i, 0 when line i
\* opens no block or the block is not ended by a blank line, a When line or
\* the end of the text
FallbackBlockLast(i) ==
    LET last == SkipContinuations(BlockThen(i) + 1) - 1
    IN  IF /\ BlockThen(i) # 0
           /\ \/ last = Len(DescriptionLines)
              \/ DescriptionLines[last + 1] = <<>>
              \/ LineOpensWith(last + 1, {WhenWord})
        THEN last ELSE 0

\* the opening lines of the When...Then blocks of a text without markers
FallbackBlocks ==
    IF MarkerIndices # {} THEN <<>>
    ELSE Ascending({i \in 1..Len(DescriptionLines) : FallbackBlockLast(i) # 0})

\* C16: the fallback pass runs only when the primary pass finds nothing, and
\* each When...Then block yields one record named "Scenario N", N its
\* 1-based discovery order, whose expectedResult is the block's final step
\* line.
FallbackNaming ==
    Parsed =>
        /\ MarkedScenarios(description, 1, <<>>) # <<>>
              => parsed = MarkedScenarios(description, 1, <<>>)
        /\ \A k \in 1..Len(FallbackBlocks) :
              /\ k <= Len(parsed)
              /\ parsed[k].name = <<"S", "c", "e", "n", "a", "r", "i", "o", " ">> \o DecimalOf(k)
              /\ parsed[k].expectedResult =
                     Trim(DescriptionLines[FallbackBlockLast(FallbackBlocks[k])])

\* the lines of the When...Then block that opens on line i, trimmed
FallbackBlockLines(i) ==
    LET span == SubSeq(DescriptionLines, i, FallbackBlockLast(i))
    IN  [k \in 1..Len(span) |-> Trim(span[k])]

\* C17: the record of a fallback block holds every line of the block (the
\* When line, each And/But line, the Then line, each further And/But line)
\* exactly once as a step, in source order, each with its leading keyword.
FallbackStepCompleteness ==
    Parsed =>
        \A k \in 1..Len(FallbackBlocks) :
            /\ k <= Len(parsed)
            /\ parsed[k].steps = FallbackBlockLines(FallbackBlocks[k])

\* the markers whose block has no step line before the next marker
SteplessBlocks ==
    {m \in MarkerIndices : BlockSteps(m) = <<>> /\ \E n \in MarkerIndices : n > m}

\* the description without the lines of its step-less blocks
WithoutSteplessBlocks ==
    LET kept == Ascending({i \in 1..Len(DescriptionLines) :
                              ~\E m \in SteplessBlocks : m <= i /\ i <= BlockLast(m)})
    IN  JoinLines([k \in 1..Len(kept) |-> DescriptionLines[kept[k]]])

\* C18: a marker block with no step line before the next marker yields no
\* record, and the records parsed from the rest of the text are those parsed
\* from the text without that block.
SteplessBlockDropped ==
    (Parsed /\ SteplessBlocks # {}) => parsed = parseScenarios(WithoutSteplessBlocks)

\* C19: records are emitted in the order of their markers, and every step
\* line between one marker and the next (or the end of the text) is a step
\* of that marker's record and of no other; lines that are not step lines
\* neither end the collection nor are appended to a step.
BlockBoundaries ==
    (Parsed /\ StepBlocks # <<>>) =>
        /\ Len(parsed) = Len(StepBlocks)
        /\ \A k \in 1..Len(StepBlocks) : parsed[k].steps = BlockSteps(StepBlocks[k])

\* the contents of the steps of a testCase object
StepContents(testCase) == [i \in 1..Len(testCase.steps) |-> testCase.steps[i].content]

\* /^then\s+/i or /^and\s+then\s+/i
StartsWithThen(step) ==
    LET words == Split(CollapseSpaces(ToLowerCase(step)), " ")
    IN  /\ Len(words) >= 2
        /\ \/ words[1] = ThenWord
           \/ Len(words) >= 3 /\ words[1] = <<"a", "n", "d">> /\ words[2] = ThenWord

\* C20: the payload of a scenario has, when a step starting with Then or And
\* then exists, steps equal to the scenario steps before the last such step
\* and expected equal to that step and all following steps joined by line
\* breaks; when no such step exists, the payload steps are all the scenario
\* steps and expected is the last step's text with its leading keyword
\* stripped.
PayloadSplit ==
    \A k \in 1..Len(testCases) :
        LET steps == parsed[k].steps
            thens == {i \in 1..Len(steps) : StartsWithThen(steps[i])}
            last == CHOOSE i \in thens : \A j \in thens : j <= i
        IN  IF thens # {}
            THEN /\ StepContents(testCases[k]) = SubSeq(steps, 1, last - 1)
                 /\ testCases[k].expected = JoinLines(SubSeq(steps, last, Len(steps)))
                 /\ StepContents(testCases[k]) \o Split(testCases[k].expected, "\n") = steps
            ELSE /\ StepContents(testCases[k]) = steps
                 /\ testCases[k].expected = Trim(StripKeyword(steps[Len(steps)]))

\* the one-segment section lookup has just run on a listing with sections
AfterSingleSegmentLookup ==
    /\ Len(PathSegments) = 1
    /\ Len(memSections) > 0
    /\ Len(calls) > 0
    /\ calls[Len(calls)].op = "getSections" /\ calls[Len(calls)].ok
    /\ pc # "getSections"

\* the listed sections named like the only segment of the path
NamedLikeSegment ==
    {i \in 1..Len(memSections) : SameTitle(memSections[i].name, PathSegments[1])}

\* C21: a one-segment section path resolves to the first top-level section
\* whose lowercased, trimmed name equals the segment, to the first section of
\* that name at any depth only when no top-level section has it, and never to
\* a subsection while a top-level section of that name exists.
SingleSegmentLookup ==
    AfterSingleSegmentLookup =>
        LET topLevel == {i \in NamedLikeSegment : memSections[i].parent_id = 0}
        IN  /\ topLevel # {} =>
                  pc = "fetch" /\ sectionId = memSections[FirstIndex(topLevel)].id
            /\ (topLevel = {} /\ NamedLikeSegment # {}) =>
                  pc = "fetch" /\ sectionId = memSections[FirstIndex(NamedLikeSegment)].id

\* C21 for the paths without a separator
SingleSegmentLookupOfPlainName ==
    ~Includes(options.sectionName, <<"/">>) => SingleSegmentLookup

\* a subsection listed before the top-level section of the same name was passed over
TopLevelPreferred ==
    /\ AfterSingleSegmentLookup
    /\ sectionId = 10
    /\ memSections[1].parent_id # 0
    /\ 1 \in NamedLikeSegment

\* no top-level section has the name and the subsection was taken
SubsectionFallback ==
    /\ AfterSingleSegmentLookup
    /\ sectionId = 13

\* the section path has several segments, the listing has been read, the
\* traversal is over and sections may not be created
AfterPathLookupWithoutCreation ==
    /\ Len(PathSegments) >= 2
    /\ ~options.createSection
    /\ \E k \in 1..Len(calls) : calls[k].op = "getSections" /\ calls[k].ok
    /\ pc \notin {"getSections", "walk"}

\* the segments of the path that exist in the listing, each under the one before
MatchedSegments == Len(ExistingPrefix(memSections, PathSegments, 1, 0))

\* C22: when a segment of a multi-segment path has no matching child under
\* the current parent and sections may not be created, the run raises with an
\* error naming that segment and issues no createSection call, no ticket
\* fetch and no case call.
UnmatchedSegmentFails ==
    (AfterPathLookupWithoutCreation /\ MatchedSegments < Len(PathSegments)) =>
        /\ raised /\ pc \in {"thrown", "exited"}
        /\ result.errors = <<SectionNotFound(PathSegments[MatchedSegments + 1])>>
        /\ \A k \in 1..Len(calls) :
              ~IsCaseWrite(calls[k]) /\ calls[k].op \notin {"createSection", "fetchTicket"}

\* C22, amended: the same for a listing that holds at least one section; with
\* an empty listing the run raises as well, with no such call, on an error
\* that does not name the segment
UnmatchedSegmentFailsInListedSuite ==
    /\ Len(memSections) > 0 => UnmatchedSegmentFails
    /\ (AfterPathLookupWithoutCreation /\ Len(memSections) = 0) =>
          /\ raised /\ pc \in {"thrown", "exited"}
          /\ result.errors = <<"No sections found in suite">>
          /\ \A k \in 1..Len(calls) :
                ~IsCaseWrite(calls[k]) /\ calls[k].op \notin {"createSection", "fetchTicket"}

\* C22 witness: the first segment matched a top-level section, the second
\* has no match under it, and the run raised
SecondSegmentUnmatched ==
    /\ AfterPathLookupWithoutCreation
    /\ MatchedSegments = 1
    /\ pc = "thrown"

\* a suite name is given and no suite of the project has it
NoSuiteNamed ==
    /\ CliAccepts(options)
    /\ options.suiteName # <<>>
    /\ \A i \in 1..Len(suites) :
          CollapseSpaces(Trim(ToLowerCase(suites[i].name)))
              # CollapseSpaces(Trim(ToLowerCase(options.suiteName)))

\* C23: when the named suite matches no suite of the project and suites may
\* not be created, the run fails before any section lookup, ticket fetch or
\* case call, and issues no createSuite call: it only lists the suites.
MissingSuiteFails ==
    (NoSuiteNamed /\ ~options.createSuite) =>
        /\ \A k \in 1..Len(calls) : calls[k].op = "getSuites"
        /\ pc \in {"start", "findSuite", "getSuites", "thrown", "exited"}
        /\ pc \in {"thrown", "exited"} => raised /\ exitCode # 0
        /\ (pc = "thrown" /\ calls[1].ok) => result.errors = <<"Suite not found">>
        /\ sectionId = 0 /\ memSections = <<>> /\ scenarios = <<>>

\* C23 witness: the suite "N" was looked for among the listed suites, was not
\* found, and the run raised
MissingSuiteRaised ==
    /\ NoSuiteNamed /\ ~options.createSuite
    /\ pc = "thrown"
    /\ Len(calls) = 2 /\ calls[1].ok /\ calls[2].ok
    /\ Len(suites) = 1

\* the ids of the cases the scenario loop has updated, or in a dry run would update
UpdateTargets ==
    ({calls[k].id : k \in {j \in 1..Len(calls) : calls[j].op = "updateCase"}}
        \cup {existingCasesMap(jiraTicketTestCases, Trim(ToLowerCase(scenarios[j].name))) :
                 j \in 1..ProcessedScenarios}) \ {0}

\* the ids of the cases selected for deletion, and of those a delete call was issued for
DeleteTargets ==
    {testCasesToDelete[k].id : k \in 1..Len(testCasesToDelete)}
        \cup {calls[k].id : k \in {j \in 1..Len(calls) : calls[j].op = "deleteCase"}}

\* C24: no existing case is both the target of an update action and a member
\* of the delete list.
UpdateAndDeleteDisjoint == UpdateTargets \cap DeleteTargets = {}

\* C24 witness: a run has updated one managed case and selected another for deletion
UpdatedOneDeletedAnother ==
    /\ pc = "returned"
    /\ UpdateTargets # {}
    /\ DeleteTargets # {}
    /\ \E k \in 1..Len(calls) : calls[k].op = "updateCase" /\ calls[k].ok
    /\ \E k \in 1..Len(calls) : calls[k].op = "deleteCase" /\ calls[k].ok

\* the run went through both loops to the summary
ReachedSummary == pc \in {"returned", "exited"} /\ ~raised /\ result.scenariosFound > 0

\* C25: at the summary, created + updated + deleted + skipped equals the
\* scenarios found plus the cases selected for deletion, skipped equals the
\* number of recorded errors, and outside a dry run one case id is recorded
\* per created or updated scenario.
SummaryAccounting ==
    ReachedSummary =>
        /\ result.scenariosCreated + result.scenariosUpdated + result.scenariosDeleted
              + result.scenariosSkipped = result.scenariosFound + Len(testCasesToDelete)
        /\ result.scenariosSkipped = Len(result.errors)
        /\ ~options.dryRun =>
              Len(result.testCaseIds) = result.scenariosCreated + result.scenariosUpdated

\* C25 witness: a real run reached the summary with an update, a deletion and
\* a skipped action
SummaryWithEveryCounter ==
    /\ ReachedSummary
    /\ ~options.dryRun
    /\ result.scenariosFound = 2
    /\ result.scenariosUpdated >= 1
    /\ result.scenariosDeleted >= 1
    /\ result.scenariosSkipped >= 1

\* C26: every updateCase and deleteCase call targets a case of the resolved
\* section's listing whose refs contain the ticket key argument, and every
\* createCase call targets the resolved section; nothing else is written.
WriteFootprint ==
    \A k \in 1..Len(calls) :
        /\ calls[k].op \in {"updateCase", "deleteCase"} =>
              \E m \in 1..Len(casesAtStart) :
                  /\ casesAtStart[m].id = calls[k].id
                  /\ casesAtStart[m].section_id = sectionId
                  /\ Includes(casesAtStart[m].refs, options.jiraKey)
        /\ calls[k].op = "createCase" => calls[k].id = sectionId /\ sectionId # 0

\* the stored cases outside the managed subset are as the run found them
UnmanagedCasesUntouched ==
    \A m \in 1..Len(casesAtStart) :
        (casesAtStart[m].section_id # sectionId
            \/ ~Includes(casesAtStart[m].refs, options.jiraKey)) =>
                \E j \in 1..Len(cases) : cases[j] = casesAtStart[m]

\* C26 witness: a run has created a case and deleted a managed one while the
\* store held a case of another section with the same back-reference
WroteBesideAnotherSection ==
    /\ pc = "returned"
    /\ \E k \in 1..Len(calls) : calls[k].op = "createCase" /\ calls[k].ok
    /\ \E k \in 1..Len(calls) : calls[k].op = "deleteCase" /\ calls[k].ok
    /\ \E m \in 1..Len(casesAtStart) :
          /\ casesAtStart[m].section_id # sectionId
          /\ Includes(casesAtStart[m].refs, options.jiraKey)

\* C27: within one run no existing case receives more than one update call,
\* whatever the scenario list and the managed cases, repeated scenario names
\* and repeated case titles included.
AtMostOneUpdatePerCase ==
    \A a, b \in 1..Len(calls) :
        (a < b /\ calls[a].op = "updateCase" /\ calls[b].op = "updateCase") =>
            calls[a].id # calls[b].id

\* C27 for scenario lists whose lowercased, trimmed names are pairwise distinct
AtMostOneUpdatePerCaseForDistinctNames ==
    (\A i, j \in 1..Len(scenarios) :
         i # j => ~SameTitle(scenarios[i].name, scenarios[j].name)) =>
        AtMostOneUpdatePerCase

\* two scenarios with different names have each updated a case of their own
TwoUpdatesOfTwoCases ==
    /\ pc = "returned"
    /\ Len(CallsOf({"updateCase"})) = 2
    /\ AtMostOneUpdatePerCase

\* the ticket fetch failed, or the ticket gave no scenario
FetchFailed == \E k \in 1..Len(calls) : calls[k].op = "fetchTicket" /\ ~calls[k].ok

EmptyTicket ==
    /\ \E k \in 1..Len(calls) : calls[k].op = "fetchTicket" /\ calls[k].ok
    /\ result.scenariosFound = 0

\* C28: in a real run with a creation flag, a failed ticket fetch or a ticket
\* without scenarios means the run has issued no mutating call at all.
AbortedRunLeavesStoreUnchanged ==
    (/\ ~options.dryRun
     /\ options.createSuite \/ options.createSection
     /\ FetchFailed \/ EmptyTicket)
    => \A k \in 1..Len(calls) : ~IsMutation(calls[k])

\* C28, amended: a real run whose ticket fetch fails raises, one whose ticket
\* has no scenario returns, and either has issued no case call and left the
\* cases as they were; its only mutating calls are the suite and section
\* creations of the hierarchy resolution, all issued before the fetch.
AbortedRunWritesNoCase ==
    (~options.dryRun /\ (FetchFailed \/ EmptyTicket)) =>
        /\ FetchFailed => raised /\ pc \in {"thrown", "exited"}
        /\ EmptyTicket => ~raised /\ pc \in {"returned", "exited"}
        /\ cases = casesAtStart
        /\ \A k \in 1..Len(calls) :
              /\ ~IsCaseWrite(calls[k])
              /\ IsMutation(calls[k]) =>
                    \E f \in 1..Len(calls) : k < f /\ calls[f].op = "fetchTicket"
        /\ calls[Len(calls)].op = "fetchTicket"

\* C28 witness: a suite and a section were created and the ticket fetch then failed
FetchFailedAfterCreation ==
    /\ FetchFailed
    /\ ~options.dryRun
    /\ \E k \in 1..Len(calls) : calls[k].op = "createSuite" /\ calls[k].ok
    /\ \E k \in 1..Len(calls) : calls[k].op = "createSection" /\ calls[k].ok
    /\ Len(casesAtStart) > 0

\* the suites the store held when the run began: the run appends one per
\* successful createSuite call
SuitesAtStart ==
    SubSeq(suites, 1,
           Len(suites) - Len(SelectSeq(calls, LAMBDA c : c.op = "createSuite" /\ c.ok)))

\* the suite and the section the command line names exist in the store: a
\* named suite is among the suites, and the section path is a chain of
\* sections from the top level or, for one segment, the name of a section
NothingToCreate ==
    /\ options.suiteName # <<>> =>
          \E i \in 1..Len(SuitesAtStart) :
              CollapseSpaces(Trim(ToLowerCase(SuitesAtStart[i].name)))
                  = CollapseSpaces(Trim(ToLowerCase(options.suiteName)))
    /\ options.sectionName # <<>> =>
          \/ Len(ExistingPrefix(SectionsAtStart, PathSegments, 1, 0)) = Len(PathSegments)
          \/ /\ Len(PathSegments) = 1
             /\ \E i \in 1..Len(SectionsAtStart) :
                   SameTitle(SectionsAtStart[i].name, PathSegments[1])

\* the run after the preview is over and every remote call it made succeeded
RealRunOver ==
    /\ ~options.dryRun /\ run >= 2
    /\ pc \in {"returned", "thrown", "exited"}
    /\ \A k \in 1..Len(calls) : calls[k].ok

\* C29: when nothing has to be created and every remote call of the real run
\* succeeds, the dry run has reported the scenariosFound, scenariosCreated,
\* scenariosUpdated and scenariosDeleted that the real run reports for the
\* same arguments, ticket and store.
DryRunIsFaithfulPreview ==
    (RealRunOver /\ NothingToCreate) =>
        /\ result.scenariosFound = preview.scenariosFound
        /\ result.scenariosCreated = preview.scenariosCreated
        /\ result.scenariosUpdated = preview.scenariosUpdated
        /\ result.scenariosDeleted = preview.scenariosDeleted

\* C29 witness: preview and real run both report a create, an update and a delete
PreviewMatchedRealRun ==
    /\ RealRunOver /\ NothingToCreate
    /\ pc = "returned"
    /\ preview.scenariosCreated = 1 /\ result.scenariosCreated = 1
    /\ preview.scenariosUpdated = 1 /\ result.scenariosUpdated = 1
    /\ preview.scenariosDeleted = 1 /\ result.scenariosDeleted = 1
    /\ Len(CallsOf({"createCase", "updateCase", "deleteCase"})) = 3

\* the lowercased, trimmed titles of the stored cases of the resolved section
\* whose refs contain the key argument
ManagedTitlesNow ==
    {Trim(ToLowerCase(cases[k].title)) :
        k \in {j \in 1..Len(cases) : /\ cases[j].section_id = sectionId
                                     /\ Includes(cases[j].refs, options.jiraKey)}}

\* a real run that parsed a scenario is over and recorded no error
ConvergedRun ==
    /\ ~options.dryRun
    /\ pc \in {"returned", "exited"}
    /\ ~raised
    /\ result.scenariosFound > 0
    /\ Len(result.errors) = 0

\* C30: after a real run that parsed at least one scenario and recorded no
\* error, the lowercased, trimmed titles of the managed cases of the resolved
\* section are exactly the lowercased, trimmed names of the parsed scenarios.
Convergence ==
    ConvergedRun =>
        ManagedTitlesNow = {Trim(ToLowerCase(scenarios[k].name)) : k \in 1..Len(scenarios)}

\* C30 when the key argument is spelled as the tracker spells the issue key
ConvergenceForCanonicalKey ==
    options.jiraKey = issue.key => Convergence

\* a run with the canonical key has created, updated and deleted and converged
ConvergedAfterAllThree ==
    /\ ConvergedRun
    /\ options.jiraKey = issue.key
    /\ result.scenariosCreated >= 1 /\ result.scenariosUpdated >= 1
    /\ result.scenariosDeleted >= 1

====
